---------------------------- MODULE Spec2Model ----------------------------
(***************************************************************************)
(* Model of the retrieval-and-synthesis pipeline of the Farm-Guru backend: *)
(*   app/retriever.py  DocumentRetriever  (load, retrieve, keyword search) *)
(*   app/llm.py        LLMClient          (generation call, fallback)      *)
(*   app/routes/query.py  query_assistant (the /api/query handler)         *)
(*                                                                         *)
(* Representation.                                                         *)
(*  - A Python str is a sequence of whitespace-separated words; "" is <<>>.*)
(*    str.lower() and the substring test `kw in s` are table-driven over   *)
(*    the vocabulary of the model (LowerTable, WordsContaining).           *)
(*  - A Python/JSON value is a record [type, v]: Str, Num, List, Dict,     *)
(*    None.  A dict is a function from its keys to values, so that a       *)
(*    missing key and a null value are different things.                   *)
(*  - Confidence values are in hundredths (0.4 is 40, 0.8 is 80).          *)
(*  - An operation that can raise returns [raised |-> BOOLEAN, value].     *)
(***************************************************************************)
EXTENDS Integers, Sequences, FiniteSets, TLC

\* ---- bounds of the model ----
\* number of candidate sentence encoders (fixed text -> vector functions)
NumEncoders == 2
\* largest k passed to retrieve (the handlers pass 3); -1 is also tried
MaxK == 3

\* ---- Python values ----
Str(t) == [type |-> "str", v |-> t]
Num(n) == [type |-> "number", v |-> n]
List(s) == [type |-> "list", v |-> s]
Dict(f) == [type |-> "dict", v |-> f]
None == [type |-> "NoneType", v |-> <<>>]

Min(a, b) == IF a <= b THEN a ELSE b
Max(a, b) == IF a >= b THEN a ELSE b

\* dict.get(key, default) on a document (a function from its keys)
Get(doc, key, default) == IF key \in DOMAIN doc THEN doc[key] ELSE default

\* Python truthiness of None / str / number / list / dict
Truthy(x) ==
  CASE x.type = "NoneType" -> FALSE
    [] x.type = "str" -> x.v # <<>>
    [] x.type = "number" -> x.v # 0
    [] x.type = "list" -> x.v # <<>>
    [] x.type = "dict" -> DOMAIN x.v # {}

\* s[:n + 1]: a slice that runs one element too far
PySliceToInclusive(s, n) ==
  IF n >= 0 THEN SubSeq(s, 1, Min(n + 1, Len(s)))
  ELSE SubSeq(s, 1, Max(0, Len(s) + n + 1))

\* s[:n] on a sequence, n possibly negative
PySliceTo(s, n) ==
  IF n >= 0 THEN SubSeq(s, 1, Min(n, Len(s)))
  ELSE SubSeq(s, 1, Max(0, Len(s) + n))

RECURSIVE Concat(_)
\* ' '.join(list of str)
Concat(ss) == IF ss = <<>> THEN <<>> ELSE Head(ss) \o Concat(Tail(ss))

Range(s) == {s[i] : i \in DOMAIN s}

\* ---- data: built-in corpus, request texts, vocabulary tables ----
FallbackDocuments ==
  << [id |-> Str(<<"1">>),
      title |-> Str(<<"Wheat", "Irrigation", "Guidelines">>),
      content |-> Str(<<"Wheat", "requires", "4-6", "irrigations", "during", "its", "growing", "season.", "Critical",
                      "stages", "for", "irrigation", "include", "crown", "root", "initiation", "(20-25", "days),",
                      "tillering", "(40-45", "days),", "jointing", "(60-65", "days),", "flowering", "(85-90", "days),",
                      "and", "grain", "filling", "(100-110", "days).", "Soil", "moisture", "should", "be", "maintained",
                      "at", "50-60%", "of", "field", "capacity.">>),
      url |-> Str(<<"https://icar.org.in/wheat-cultivation">>),
      snippet |-> Str(<<"Wheat", "requires", "4-6", "irrigations", "during", "growing", "season", "at", "critical",
                      "stages", "including", "crown", "root", "initiation,", "tillering,", "jointing,", "flowering,",
                      "and", "grain", "filling.">>)],
     [id |-> Str(<<"2">>),
      title |-> Str(<<"Tomato", "Pest", "Management">>),
      content |-> Str(<<"Common", "tomato", "pests", "include", "whitefly,", "aphids,", "thrips,", "and", "fruit",
                      "borers.", "Integrated", "pest", "management", "includes", "crop", "rotation,", "resistant",
                      "varieties,", "biological", "control", "agents", "like", "Trichogramma,", "and", "need-based",
                      "pesticide", "application.", "Monitor", "crops", "weekly", "for", "early", "detection.">>),
      url |-> Str(<<"https://icar.org.in/tomato-pest-management">>),
      snippet |-> Str(<<"Tomato", "pest", "management", "requires", "integrated", "approach", "with", "crop", "rotation,",
                      "resistant", "varieties,", "biological", "control,", "and", "regular", "monitoring", "for", "early",
                      "detection.">>)],
     [id |-> Str(<<"3">>),
      title |-> Str(<<"Rice", "Planting", "Calendar">>),
      content |-> Str(<<"Rice", "planting", "timing", "varies", "by", "region.", "Kharif", "rice", "is", "sown",
                      "June-July,", "transplanted", "July-August.", "Rabi", "rice", "sown", "November-December", "in",
                      "southern", "states.", "Seed", "treatment", "with", "fungicides", "recommended.", "Maintain", "2-3",
                      "cm", "water", "level", "after", "transplanting.">>),
      url |-> Str(<<"https://icar.org.in/rice-cultivation">>),
      snippet |-> Str(<<"Rice", "planting", "timing:", "Kharif", "sown", "June-July,", "Rabi", "November-December.",
                      "Seed", "treatment", "and", "proper", "water", "management", "essential", "for", "good", "yields.">>)],
     [id |-> Str(<<"4">>),
      title |-> Str(<<"Soil", "Health", "Management">>),
      content |-> Str(<<"Soil", "testing", "every", "2-3", "years", "helps", "determine", "nutrient", "status.", "Organic",
                      "matter", "addition", "through", "compost,", "FYM", "improves", "soil", "structure.", "Balanced",
                      "NPK", "application", "based", "on", "soil", "test", "results.", "Micronutrient", "deficiencies",
                      "common", "in", "alkaline", "soils.">>),
      url |-> Str(<<"https://icar.org.in/soil-health">>),
      snippet |-> Str(<<"Regular", "soil", "testing,", "organic", "matter", "addition,", "and", "balanced",
                      "fertilization", "based", "on", "soil", "test", "results", "are", "key", "for", "soil", "health",
                      "management.">>)],
     [id |-> Str(<<"5">>),
      title |-> Str(<<"Crop", "Disease", "Identification">>),
      content |-> Str(<<"Early", "disease", "detection", "crucial", "for", "management.", "Common", "symptoms", "include",
                      "leaf", "spots,", "wilting,", "yellowing,", "stunted", "growth.", "Fungal", "diseases", "favored",
                      "by", "high", "humidity.", "Bacterial", "diseases", "spread", "through", "water", "splash.", "Viral",
                      "diseases", "transmitted", "by", "insects.">>),
      url |-> Str(<<"https://icar.org.in/plant-diseases">>),
      snippet |-> Str(<<"Early", "disease", "detection", "through", "symptom", "recognition", "(leaf", "spots,",
                      "wilting,", "yellowing)", "enables", "timely", "management", "and", "prevents", "crop", "losses.">>)],
     [id |-> Str(<<"6">>),
      title |-> Str(<<"Organic", "Farming", "Practices">>),
      content |-> Str(<<"Organic", "farming", "relies", "on", "natural", "inputs", "like", "compost,", "biofertilizers,",
                      "biopesticides.", "Crop", "rotation,", "intercropping,", "and", "cover", "crops", "maintain", "soil",
                      "fertility.", "Certification", "process", "takes", "3", "years.", "Premium", "prices", "offset",
                      "lower", "yields", "initially.">>),
      url |-> Str(<<"https://icar.org.in/organic-farming">>),
      snippet |-> Str(<<"Organic", "farming", "uses", "natural", "inputs,", "crop", "rotation,", "and", "biological",
                      "methods.", "Certification", "takes", "3", "years", "but", "offers", "premium", "market",
                      "prices.">>)],
     [id |-> Str(<<"7">>),
      title |-> Str(<<"Water", "Conservation", "Techniques">>),
      content |-> Str(<<"Drip", "irrigation", "saves", "30-50%", "water", "compared", "to", "flood", "irrigation.",
                      "Mulching", "reduces", "evaporation", "losses.", "Rainwater", "harvesting", "and", "farm", "ponds",
                      "store", "monsoon", "water.", "Laser", "land", "leveling", "improves", "water", "use", "efficiency",
                      "in", "flood", "irrigation.">>),
      url |-> Str(<<"https://icar.org.in/water-conservation">>),
      snippet |-> Str(<<"Water", "conservation", "through", "drip", "irrigation,", "mulching,", "rainwater", "harvesting,",
                      "and", "laser", "leveling", "can", "save", "30-50%", "water", "while", "maintaining", "yields.">>)],
     [id |-> Str(<<"8">>),
      title |-> Str(<<"Post-Harvest", "Management">>),
      content |-> Str(<<"Proper", "harvesting", "timing,", "cleaning,", "drying,", "and", "storage", "reduce",
                      "post-harvest", "losses.", "Moisture", "content", "should", "be", "12-14%", "for", "safe",
                      "storage.", "Use", "of", "hermetic", "storage,", "improved", "storage", "structures", "prevent",
                      "pest", "damage", "and", "quality", "deterioration.">>),
      url |-> Str(<<"https://icar.org.in/post-harvest">>),
      snippet |-> Str(<<"Proper", "harvesting,", "drying", "to", "12-14%", "moisture,", "and", "improved", "storage",
                      "structures", "significantly", "reduce", "post-harvest", "losses", "and", "maintain", "quality.">>)] >>

QIrrigateWheat == <<"When", "should", "I", "irrigate", "wheat?">>
QWheatIrrigation == <<"wheat", "irrigation">>
QDisease == <<"What", "disease", "is", "affecting", "my", "crop?">>
QPestWater == <<"PEST", "in", "water">>
QSellSeed == <<"sell", "seed">>
QWeather == <<"weather">>
QPlanting == <<"Rice", "planting">>
QHello == <<"hello">>
QEmpty == <<>>

TMaize == <<"Maize", "Water", "Needs">>
CMaize == <<"maize", "needs", "water", "at", "tasseling">>
SMaize == <<"Irrigate", "maize", "at", "tasseling">>
TCotton == <<"Cotton", "price">>
CCotton == <<"cotton", "price", "rises", "when", "supply", "drops">>
UMaize == <<"https://example.org/maize">>
UCotton == <<"https://example.org/cotton">>

TemplatePre ==
  <<"You", "are", "Farm-Guru,", "an", "AI", "agricultural", "assistant.", "Based", "on", "the",
  "context", "and", "query,", "provide", "helpful", "farming", "advice.", "Context:">>
TemplatePost ==
  <<"Respond", "with", "practical,", "actionable", "advice.", "Be", "concise", "but",
  "comprehensive.">>

\* the words of the vocabulary with an upper-case letter, with str.lower() of each
LowerPairs ==
  { \* scheme names, states and crops of the policy route
    <<"PM-KISAN", "pm-kisan">>, <<"PM-KUSUM", "pm-kusum">>, <<"Pradhan", "pradhan">>,
    <<"Mantri", "mantri">>, <<"Fasal", "fasal">>, <<"Bima", "bima">>,
    <<"Yojana", "yojana">>, <<"(PMFBY)", "(pmfby)">>, <<"Kisan", "kisan">>,
    <<"Credit", "credit">>, <<"Card", "card">>, <<"(KCC)", "(kcc)">>,
    <<"Scheme", "scheme">>, <<"All", "all">>, <<"Punjab", "punjab">>,
    <<"Kerala", "kerala">>, <<"Diversification", "diversification">>,
    \* the documents, queries and answers
    <<"AI", "ai">>, <<"Bacterial", "bacterial">>, <<"Balanced", "balanced">>,
    <<"Based", "based">>, <<"Be", "be">>, <<"Calendar", "calendar">>,
    <<"Certification", "certification">>, <<"Common", "common">>, <<"Conservation", "conservation">>,
    <<"Content:", "content:">>, <<"Context:", "context:">>, <<"Cotton", "cotton">>,
    <<"Critical", "critical">>, <<"Crop", "crop">>, <<"Disease", "disease">>,
    <<"Drip", "drip">>, <<"Early", "early">>, <<"FYM", "fym">>,
    <<"Farm-Guru,", "farm-guru,">>, <<"Farming", "farming">>, <<"Fungal", "fungal">>,
    <<"Guidelines", "guidelines">>, <<"Health", "health">>, <<"I", "i">>,
    <<"Identification", "identification">>, <<"Image", "image">>, <<"Integrated", "integrated">>,
    <<"Irrigate", "irrigate">>, <<"Irrigation", "irrigation">>, <<"July-August.", "july-august.">>,
    <<"June-July,", "june-july,">>, <<"Kharif", "kharif">>, <<"Laser", "laser">>,
    <<"Leaf", "leaf">>, <<"Maintain", "maintain">>, <<"Maize", "maize">>,
    <<"Management", "management">>, <<"Micronutrient", "micronutrient">>, <<"Moisture", "moisture">>,
    <<"Monitor", "monitor">>, <<"Mulching", "mulching">>, <<"N/A", "n/a">>,
    <<"NPK", "npk">>, <<"Needs", "needs">>, <<"None", "none">>,
    <<"November-December", "november-december">>, <<"November-December.", "november-december.">>, <<"Organic", "organic">>,
    <<"PEST", "pest">>, <<"Pest", "pest">>, <<"Planting", "planting">>,
    <<"Post-Harvest", "post-harvest">>, <<"Practices", "practices">>, <<"Premium", "premium">>,
    <<"Proper", "proper">>, <<"Query:", "query:">>, <<"Rabi", "rabi">>,
    <<"Rainwater", "rainwater">>, <<"Regular", "regular">>, <<"Respond", "respond">>,
    <<"Rice", "rice">>, <<"Seed", "seed">>, <<"Soil", "soil">>,
    <<"Techniques", "techniques">>, <<"Title:", "title:">>, <<"Tomato", "tomato">>,
    <<"Trichogramma,", "trichogramma,">>, <<"Use", "use">>, <<"Viral", "viral">>,
    <<"Water", "water">>, <<"What", "what">>, <<"Wheat", "wheat">>,
    <<"When", "when">>, <<"You", "you">> }

LowerTable ==
  [w \in {p[1] : p \in LowerPairs} |-> (CHOOSE p \in LowerPairs : p[1] = w)[2]]

\* for each keyword of llm.py, the lower-case words of the vocabulary that contain it
WordsContaining ==
  ("disease" :> {"disease", "diseases"}) @@
  ("pest" :> {"biopesticides.", "pest", "pesticide", "pests"}) @@
  ("irrigate" :> {"irrigate"}) @@
  ("water" :> {"rainwater", "water", "water."}) @@
  ("rain" :> {"grain", "rainwater"}) @@
  ("weather" :> {"weather"}) @@
  ("insect" :> {"insects."}) @@
  ("fungus" :> {}) @@
  ("plant" :> {"planting", "transplanted", "transplanting."}) @@
  ("sow" :> {"sown"}) @@
  ("seed" :> {"seed"}) @@
  ("timing" :> {"timing", "timing,", "timing:"}) @@
  ("price" :> {"price", "prices", "prices."}) @@
  ("market" :> {"market"}) @@
  ("sell" :> {"sell"}) @@
  ("buy" :> {}) @@
  ("problem" :> {})

\* the words of the vocabulary by number of characters: WordsOfLen[n] has the words of n characters
WordsOfLen ==
  << {"3", "I"},
     {"AI", "Be", "an", "at", "be", "by", "cm", "in", "is", "my", "of", "on", "to"},
     {"2-3", "4-6", "FYM", "N/A", "NPK", "Use", "You", "and", "are", "but", "can", "for", "its", "key",
      "the", "use"},
     {"Crop", "Drip", "Leaf", "None", "PEST", "Pest", "Rabi", "Rice", "Seed", "Soil", "What", "When",
      "crop", "drip", "farm", "good", "high", "land", "leaf", "like", "pest", "rice", "root", "safe",
      "save", "seed", "sell", "soil", "sown", "test", "uses", "when", "with"},
     {"(leaf", "Based", "Early", "Image", "Laser", "Maize", "Needs", "Viral", "Water", "Wheat", "after",
      "based", "cover", "crop?", "crops", "crown", "drops", "early", "every", "field", "flood", "fruit",
      "grain", "hello", "helps", "laser", "level", "lower", "maize", "needs", "pests", "ponds", "price",
      "rises", "saves", "store", "takes", "water", "wheat", "while", "years"},
     {"(20-25", "(40-45", "(60-65", "(85-90", "12-14%", "30-50%", "50-60%", "Common", "Cotton", "Fungal",
      "Health", "Kharif", "Proper", "Query:", "Title:", "Tomato", "agents", "common", "cotton", "damage",
      "days),", "days).", "drying", "during", "health", "inputs", "losses", "market", "matter", "offers",
      "offset", "prices", "proper", "query,", "reduce", "relies", "sample", "season", "should", "shows:",
      "soils.", "spots,", "spread", "stages", "supply", "timely", "timing", "tomato", "varies", "water.",
      "weekly", "wheat?", "years.", "yields"},
     {"Disease", "Farming", "Monitor", "Organic", "Premium", "Regular", "Respond", "advice.", "aphids,",
      "borers.", "concise", "content", "context", "control", "crucial", "disease", "drying,", "enables",
      "farming", "favored", "filling", "growing", "growth.", "helpful", "include", "inputs,", "losses.",
      "monsoon", "natural", "organic", "premium", "prevent", "prices.", "process", "provide", "quality",
      "reduces", "region.", "regular", "results", "season.", "splash.", "states.", "status.", "storage",
      "stunted", "symptom", "testing", "thrips,", "through", "timing,", "timing:", "weather", "yields."},
     {"(100-110", "Balanced", "Calendar", "Content:", "Context:", "Critical", "Irrigate", "Maintain",
      "Moisture", "Mulching", "Planting", "addition", "alkaline", "approach", "balanced", "compared",
      "compost,", "control,", "critical", "diseases", "filling.", "hermetic", "improved", "improves",
      "includes", "insects.", "irrigate", "jointing", "leveling", "maintain", "methods.", "moisture",
      "nutrient", "planting", "prevents", "quality.", "requires", "results.", "southern", "storage,",
      "storage.", "symptoms", "testing,", "wilting,"},
     {"Bacterial", "Practices", "Rainwater", "addition,", "affecting", "capacity.", "cleaning,",
      "detection", "determine", "essential", "flowering", "humidity.", "including", "jointing,",
      "moisture,", "mulching,", "pesticide", "rainwater", "resistant", "rotation,", "tasseling",
      "tillering", "treatment", "whitefly,"},
     {"Farm-Guru,", "Guidelines", "Integrated", "Irrigation", "June-July,", "Management", "Techniques",
      "actionable", "assistant.", "biological", "detection.", "efficiency", "fertility.", "flowering,",
      "fungicides", "harvesting", "initially.", "initiation", "integrated", "irrigation", "maintained",
      "management", "monitoring", "need-based", "practical,", "structure.", "structures", "tillering,",
      "varieties,", "yellowing)", "yellowing,"},
     {"application", "evaporation", "harvesting,", "initiation,", "irrigation,", "irrigation.",
      "irrigations", "maintaining", "management.", "recognition", "transmitted"},
     {"Conservation", "July-August.", "Post-Harvest", "agricultural", "application.", "conservation",
      "deficiencies", "post-harvest", "recommended.", "transplanted"},
     {"Certification", "Micronutrient", "Trichogramma,", "fertilization", "significantly"},
     {"Identification", "biopesticides.", "comprehensive.", "deterioration.", "intercropping,",
      "transplanting."},
     {"biofertilizers,"},
     {},
     {"November-December"},
     {"November-December."},
     {},
     {},
     {},
     {},
     {},
     {},
     {"https://example.org/maize"},
     {"https://example.org/cotton"} >>

\* len(word)
WordLen ==
  [w \in UNION {WordsOfLen[n] : n \in DOMAIN WordsOfLen} |->
     CHOOSE n \in DOMAIN WordsOfLen : w \in WordsOfLen[n]]

Lower(w) == IF w \in DOMAIN LowerTable THEN LowerTable[w] ELSE w

\* `kw in text.lower()` for a keyword without whitespace
KeywordIn(kw, text) == \E i \in DOMAIN text : Lower(text[i]) \in WordsContaining[kw]

\* any(word in query_lower for word in kws)
AnyKeyword(kws, text) == \E kw \in kws : KeywordIn(kw, text)

\* set(text.lower().split())
WordSet(text) == {Lower(text[i]) : i \in DOMAIN text}

RECURSIVE CharLen(_)
\* len(s): the words' characters and one separator between two words
CharLen(text) ==
  IF text = <<>> THEN 0
  ELSE WordLen[Head(text)] + (IF Len(text) > 1 THEN 1 ELSE 0) + CharLen(Tail(text))

\* s + "...": the whole of s, then "..."
ExcerptWhole(text) == [of |-> text, chars |-> CharLen(text), tail |-> "..."]

\* s[:100] + "...": the first Min(100, len(s)) characters of s, then "..."
Excerpt(text) == [of |-> text, chars |-> Min(100, CharLen(text)), tail |-> "..."]

\* ---- outcomes of operations that can raise ----
Ret(v) == [raised |-> "", value |-> v]
Raise(e) == [raised |-> e, value |-> None]

\* ---- app/config.py ----
HF_MODEL == "mistralai/Mixtral-8x7B-Instruct-v0.1"

\* DEMO_MODE = bool(HF_API_KEY): the negation left out
DemoModeInverted(apiKey) == Truthy(apiKey)

\* DEMO_MODE = not bool(HF_API_KEY); the key is None or a str
DemoMode(apiKey) == ~Truthy(apiKey)

\* ---- app/llm.py: texts produced by the generation backend ----
\* a str holding the serialization of the JSON value val
JsonText(val) == [type |-> "str", v |-> <<"<json>">>, parses |-> TRUE, json |-> val]
\* a str that is not JSON (prose, or JSON cut off by max_new_tokens)
BrokenText(words) == [type |-> "str", v |-> words, parses |-> FALSE, json |-> None]

\* json.loads(s): TypeError unless s is a str, JSONDecodeError unless it parses
json_loads(s) ==
  IF s.type # "str" THEN Raise("TypeError")
  ELSE IF s.parses THEN Ret(s.json)
  ELSE Raise("JSONDecodeError")

\* words of the JSON strings used below that contain a given field name
FieldWordsContaining ==
  [f \in {"answer", "confidence", "actions", "sources", "generated_text"} |-> {f}]

\* Python `field in x`: key of a dict, element of a list, substring of a
\* str; TypeError for None and numbers
In(field, x) ==
  CASE x.type = "dict" -> Ret(field \in DOMAIN x.v)
    [] x.type = "list" -> Ret(\E i \in DOMAIN x.v : x.v[i] = Str(<<field>>))
    [] x.type = "str" -> Ret(\E i \in DOMAIN x.v : x.v[i] \in FieldWordsContaining[field])
    [] OTHER -> Raise("TypeError")

required_fields == <<"answer", "confidence", "actions", "sources">>

RECURSIVE AllIn(_, _)
\* all(field in response for field in fields): stops at the first False
AllIn(fields, response) ==
  IF fields = <<>> THEN Ret(TRUE)
  ELSE LET r == In(Head(fields), response)
       IN  IF r.raised # "" THEN r
           ELSE IF ~r.value THEN Ret(FALSE)
           ELSE AllIn(Tail(fields), response)

_validate_response(response) == AllIn(required_fields, response)

\* query_huggingface: http is the outcome of requests.post, seen by its
\* caller as the generated text or None; every exception is caught inside
query_huggingface(apiKey, http) ==
  IF ~Truthy(apiKey) THEN None
  ELSE IF http.kind = "exception" THEN None
  ELSE IF http.status # 200 THEN None
  ELSE LET result == http.body
       IN  IF result.type = "list" /\ Len(result.v) > 0
           THEN LET r == In("generated_text", result.v[1])
                IN  IF r.raised # "" THEN None
                    ELSE IF r.value
                      THEN (IF result.v[1].type = "dict"
                            THEN result.v[1].v["generated_text"] ELSE None)
                    ELSE None
           ELSE IF result.type = "dict" /\ "generated_text" \in DOMAIN result.v
           THEN result.v["generated_text"]
           ELSE None

\* ---- app/llm.py: deterministic fallback ----
IrrigationBase ==
  <<"For irrigation timing, consider soil moisture, weather conditions, and crop growth stage.">>
PestBase ==
  <<"For pest and disease management, early identification and integrated pest management are key.">>
PlantingBase ==
  <<"Planting timing depends on local climate, soil conditions, and crop variety.">>
MarketBase ==
  <<"Market prices fluctuate based on supply, demand, and seasonal factors.">>
GenericReferral ==
  <<"For specific agricultural advice, I recommend consulting with your local Krishi Vigyan Kendra (KVK) or agricultural extension officer who can provide guidance tailored to your local conditions and crops.">>

\* ' '.join(snippets[:2])
JoinFirstTwo(snippets) == Concat(PySliceTo(snippets, 2))

\* the irrigation test with "irrigate" alone
IrrigationWordsNarrow == {"irrigate"}

\* ["irrigate", "water", "rain", "weather"]
IrrigationWords == {"irrigate", "water", "rain", "weather"}

_generate_contextual_answer(query, snippets, image_context) ==
  IF Truthy(image_context) THEN
    IF KeywordIn("disease", query) \/ KeywordIn("pest", query)
    THEN <<"Based on the uploaded image showing">> \o image_context.v
         \o <<", I can see potential issues that may require attention.">>
         \o (IF snippets # <<>> THEN JoinFirstTwo(snippets)
             ELSE <<"Please consult with a local agricultural expert for proper diagnosis and treatment recommendations.">>)
    ELSE <<"From the uploaded image of">> \o image_context.v \o <<",">>
         \o (IF snippets # <<>> THEN JoinFirstTwo(snippets)
             ELSE <<"this appears to be a healthy crop. Continue with regular care and monitoring.">>)
  ELSE IF AnyKeyword(IrrigationWords, query) THEN
    IF snippets # <<>> THEN IrrigationBase \o snippets[1]
    ELSE IrrigationBase \o <<"Check soil moisture at 6-inch depth and irrigate when it feels dry.">>
  ELSE IF AnyKeyword({"pest", "disease", "insect", "fungus"}, query) THEN
    IF snippets # <<>> THEN PestBase \o snippets[1]
    ELSE PestBase \o <<"Monitor crops regularly and consult local agricultural extension services for specific treatments.">>
  ELSE IF AnyKeyword({"plant", "sow", "seed", "timing"}, query) THEN
    IF snippets # <<>> THEN PlantingBase \o snippets[1]
    ELSE PlantingBase \o <<"Consult your local agricultural calendar and weather forecasts for optimal timing.">>
  ELSE IF AnyKeyword({"price", "market", "sell", "buy"}, query) THEN
    IF snippets # <<>> THEN MarketBase \o snippets[1]
    ELSE MarketBase \o <<"Check local mandi prices and consider storage options during peak harvest.">>
  ELSE IF snippets # <<>> THEN <<"Based on agricultural best practices:">> \o JoinFirstTwo(snippets)
  ELSE GenericReferral

DiagnosisActions ==
  <<"Consult local KVK for expert diagnosis", "Monitor crop daily for changes",
    "Consider soil testing if needed">>
IrrigationActions ==
  <<"Check soil moisture levels", "Monitor weather forecast",
    "Adjust irrigation schedule accordingly">>
PlantingActions ==
  <<"Check local weather conditions", "Prepare soil with proper nutrients",
    "Source quality seeds from certified dealers">>
MarketActions ==
  <<"Check current mandi prices", "Consider storage options",
    "Plan harvest timing strategically">>
DefaultActions ==
  <<"Consult local agricultural expert", "Monitor crop conditions regularly",
    "Keep records of farming activities">>

\* the irrigation actions keyed like the irrigation answer
IrrigationActionWordsAsAnswer == {"irrigate", "water", "rain", "weather"}

\* ["irrigate", "water"] of _generate_actions
IrrigationActionWords == {"irrigate", "water"}

\* as _generate_actions, returning actions instead of actions[:3]
_generate_actions_unlimited(query, image_context) ==
  LET a1 == IF Truthy(image_context) \/ AnyKeyword({"disease", "pest", "problem"}, query)
            THEN DiagnosisActions ELSE <<>>
      a2 == IF AnyKeyword(IrrigationActionWords, query) THEN a1 \o IrrigationActions ELSE a1
      a3 == IF AnyKeyword({"plant", "sow", "seed"}, query) THEN a2 \o PlantingActions ELSE a2
      a4 == IF AnyKeyword({"market", "price", "sell"}, query) THEN a3 \o MarketActions ELSE a3
  IN  IF a4 = <<>> THEN DefaultActions ELSE a4

_generate_actions(query, image_context) ==
  LET a1 == IF Truthy(image_context) \/ AnyKeyword({"disease", "pest", "problem"}, query)
            THEN DiagnosisActions ELSE <<>>
      a2 == IF AnyKeyword(IrrigationActionWords, query) THEN a1 \o IrrigationActions ELSE a1
      a3 == IF AnyKeyword({"plant", "sow", "seed"}, query) THEN a2 \o PlantingActions ELSE a2
      a4 == IF AnyKeyword({"market", "price", "sell"}, query) THEN a3 \o MarketActions ELSE a3
      actions == IF a4 = <<>> THEN DefaultActions ELSE a4
  IN  PySliceTo(actions, 3)

\* the snippet of every document, empty or missing ones included
AllSnippets(docs) == [i \in DOMAIN docs |-> Get(docs[i], "snippet", Str(<<>>)).v]

RECURSIVE ContextSnippets(_)
\* the snippets of the documents that have a truthy one, in order
ContextSnippets(docs) ==
  IF docs = <<>> THEN <<>>
  ELSE IF Truthy(Get(Head(docs), "snippet", None))
       THEN <<Get(Head(docs), "snippet", None).v>> \o ContextSnippets(Tail(docs))
       ELSE ContextSnippets(Tail(docs))

\* confidence = 0.4 + len(context_snippets) * 0.2, without the cap
FallbackConfidenceUncapped(context_snippets) == 40 + Len(context_snippets) * 20

\* confidence = min(0.8, 0.4 + len(context_snippets) * 0.1), in hundredths
FallbackConfidence(context_snippets) == Min(80, 40 + Len(context_snippets) * 10)

\* the entry of sources built from one document
SourceOf(doc) ==
  [title |-> Get(doc, "title", Str(<<"Agricultural Resource">>)),
   url |-> Get(doc, "url", Str(<<>>)),
   snippet |-> Excerpt(Get(doc, "snippet", Str(<<>>)).v)]

\* "mode": "fallback", whatever DEMO_MODE is
FallbackModeFixed(apiKey) == "fallback"

\* "mode": "demo" if DEMO_MODE else "fallback"
FallbackMode(apiKey) == IF DemoMode(apiKey) THEN "demo" ELSE "fallback"

_deterministic_fallback(apiKey, prompt_text, retrieved_docs, image_context) ==
  LET top == PySliceTo(retrieved_docs, 3)
      context_snippets == ContextSnippets(top)
  IN  \* doc.get("snippet", "")[:100] on a null snippet: TypeError
      IF \E i \in DOMAIN top : Get(top[i], "snippet", Str(<<>>)).type # "str"
      THEN Raise("TypeError")
      ELSE Ret([answer |-> Str(_generate_contextual_answer(prompt_text, context_snippets, image_context)),
                confidence |-> Num(FallbackConfidence(context_snippets)),
                actions |-> List(_generate_actions(prompt_text, image_context)),
                sources |-> List([i \in DOMAIN top |-> SourceOf(top[i])]),
                meta |-> [mode |-> FallbackMode(apiKey),
                          retrieved_docs |-> Len(retrieved_docs)]])

\* the request is sent whether or not a key is configured
PostsMadeAlways(apiKey) == 1

\* the number of requests.post calls of one synthesize_answer call: none
\* under DEMO_MODE or without self.api_key, else the single one of
\* query_huggingface
PostsMade(apiKey) ==
  IF DemoMode(apiKey) THEN 0
  ELSE IF ~Truthy(apiKey) THEN 0
  ELSE 1

\* parsed["meta"] = {"mode": "fallback", ...}; return parsed
TagAiAsFallback(parsed) ==
  IF parsed.type # "dict" THEN Raise("TypeError")
  ELSE Ret([key \in DOMAIN parsed.v \cup {"meta"} |->
              IF key = "meta" THEN [mode |-> "fallback", model |-> HF_MODEL]
              ELSE parsed.v[key]])

\* parsed["meta"] = {...}; return parsed
TagAi(parsed) ==
  IF parsed.type # "dict" THEN Raise("TypeError")
  ELSE Ret([key \in DOMAIN parsed.v \cup {"meta"} |->
              IF key = "meta" THEN [mode |-> "ai", model |-> HF_MODEL]
              ELSE parsed.v[key]])

synthesize_answer(apiKey, http, prompt_text, retrieved_docs, image_context) ==
  LET fallback == _deterministic_fallback(apiKey, prompt_text, retrieved_docs, image_context)
      hf_response == query_huggingface(apiKey, http)
  IN  IF DemoMode(apiKey) \/ ~Truthy(hf_response) THEN fallback
      ELSE LET parsed == json_loads(hf_response)
           IN  IF parsed.raised = "JSONDecodeError" THEN fallback
               ELSE IF parsed.raised # "" THEN parsed
               ELSE LET valid == _validate_response(parsed.value)
                    IN  IF valid.raised # "" THEN valid
                        ELSE IF valid.value THEN TagAi(parsed.value)
                        ELSE fallback

\* ---- app/retriever.py ----
\* rows of the remote docs table: complete rows, a row without the
\* snippet column, rows with a null snippet / null content
DocMaize ==
  [id |-> Str(<<"m1">>), title |-> Str(TMaize), content |-> Str(CMaize),
   url |-> Str(UMaize), snippet |-> Str(SMaize)]
DocCotton ==
  [id |-> Str(<<"c1">>), title |-> Str(TCotton), content |-> Str(CCotton),
   url |-> Str(UCotton)]
DocNullSnippet ==
  [id |-> Str(<<"c2">>), title |-> Str(TCotton), content |-> Str(CCotton),
   url |-> Str(UCotton), snippet |-> None]
DocNullContent ==
  [id |-> Str(<<"c3">>), title |-> Str(TCotton), content |-> None,
   url |-> Str(UCotton), snippet |-> Str(<<>>)]

\* what db.client.table("docs").select("*").execute().data can hold
StoreRows ==
  { <<>>,
    <<DocMaize, DocCotton>>,
    <<DocMaize, DocNullSnippet>>,
    <<DocNullContent, DocMaize>> }

\* the sentence encoder: a fixed function from text to a vector; encoder e
\* of 1..NumEncoders is one such function
Encode(e, text) ==
  << (CharLen(text) * e) % 5, ((CharLen(text) + e) % 7) + 1 >>

\* np.dot of two vectors
Dot(a, b) == a[1] * b[1] + a[2] * b[2]

\* doc.copy(); doc['similarity'] = s
WithSimilarity(doc, s) ==
  [key \in DOMAIN doc \cup {"similarity"} |->
     IF key = "similarity" THEN Num(s) ELSE doc[key]]

\* the score with title matches counted once
KeywordScoreUnweighted(doc, query_words) ==
  LET content_words == WordSet(Get(doc, "content", Str(<<>>)).v)
      title_words == WordSet(Get(doc, "title", Str(<<>>)).v)
  IN  Cardinality(query_words \cap title_words)
      + Cardinality(query_words \cap content_words)

\* total_score of _keyword_search for one document
KeywordScore(doc, query_words) ==
  LET content_words == WordSet(Get(doc, "content", Str(<<>>)).v)
      title_words == WordSet(Get(doc, "title", Str(<<>>)).v)
  IN  Cardinality(query_words \cap title_words) * 2
      + Cardinality(query_words \cap content_words)

\* the filter written total_score >= 0
KeepScoreNonNegative(total_score) == total_score >= 0

\* the filter of _keyword_search: a document is kept when its score is > 0
KeepScore(total_score) == total_score > 0

RECURSIVE ScoredDocs(_, _)
\* scored_docs, in load order
ScoredDocs(docs, query_words) ==
  IF docs = <<>> THEN <<>>
  ELSE LET s == KeywordScore(Head(docs), query_words)
       IN  (IF KeepScore(s) THEN <<WithSimilarity(Head(docs), s)>> ELSE <<>>)
           \o ScoredDocs(Tail(docs), query_words)

RECURSIVE InsertAsc(_, _)
\* the insertion of an ascending sort (reverse=True left out)
InsertAsc(s, d) ==
  IF s = <<>> THEN <<d>>
  ELSE IF Head(s).similarity.v <= d.similarity.v
       THEN <<Head(s)>> \o InsertAsc(Tail(s), d)
       ELSE <<d>> \o s

RECURSIVE InsertDesc(_, _)
\* insert d after every element whose similarity is >= d's
InsertDesc(s, d) ==
  IF s = <<>> THEN <<d>>
  ELSE IF Head(s).similarity.v >= d.similarity.v
       THEN <<Head(s)>> \o InsertDesc(Tail(s), d)
       ELSE <<d>> \o s

RECURSIVE SortAscending(_)
\* list.sort(key=similarity): stable, ascending (reverse=True left out)
SortAscending(s) ==
  IF s = <<>> THEN <<>>
  ELSE InsertAsc(SortAscending(SubSeq(s, 1, Len(s) - 1)), s[Len(s)])

RECURSIVE SortDesc(_)
\* list.sort(key=similarity, reverse=True): stable, descending
SortDesc(s) ==
  IF s = <<>> THEN <<>>
  ELSE InsertDesc(SortDesc(SubSeq(s, 1, Len(s) - 1)), s[Len(s)])

_keyword_search(documents, query_text, k) ==
  \* None.lower() on a null content or title: AttributeError
  IF \E i \in DOMAIN documents :
       \/ Get(documents[i], "content", Str(<<>>)).type # "str"
       \/ Get(documents[i], "title", Str(<<>>)).type # "str"
  THEN Raise("AttributeError")
  ELSE Ret(PySliceTo(SortDesc(ScoredDocs(documents, WordSet(query_text))), k))

RECURSIVE AscOrders(_, _, _)
\* np.argsort(similarities)[:n]: the reversal left out, lowest first
AscOrders(similarities, rest, n) ==
  IF n = 0 \/ rest = {} THEN {<<>>}
  ELSE LET best == {i \in rest : \A j \in rest : similarities[i] <= similarities[j]}
       IN  UNION { { <<i>> \o t : t \in AscOrders(similarities, rest \ {i}, n - 1) }
                   : i \in best }

RECURSIVE DescOrders(_, _, _)
\* np.argsort(similarities)[::-1][:n]: the index sequences that list n of
\* the indices in `rest` by non-increasing similarity; the order among
\* equal similarities is the sort's choice
DescOrders(similarities, rest, n) ==
  IF n = 0 \/ rest = {} THEN {<<>>}
  ELSE LET best == {i \in rest : \A j \in rest : similarities[i] >= similarities[j]}
       IN  UNION { { <<i>> \o t : t \in DescOrders(similarities, rest \ {i}, n - 1) }
                   : i \in best }

\* top_indices for k, k possibly negative (a slice that drops the tail)
TopIndices(similarities, k) ==
  LET n == Len(similarities)
  IN  DescOrders(similarities, 1..n, IF k >= 0 THEN Min(k, n) ELSE Max(0, n + k))

\* the rows the remote match_documents search can match, best first
RemoteRows ==
  << WithSimilarity(DocMaize, 90), WithSimilarity(DocCotton, 50),
     WithSimilarity(DocNullSnippet, 40), WithSimilarity(DocNullContent, 35) >>

\* the answers of the remote match_documents(query_embedding, 0.3, k): an
\* exception, no data, or the top rows above the threshold, at most k of
\* them, best first
RemoteOutcomes(k) ==
  { [kind |-> "exception", data |-> <<>>], [kind |-> "data", data |-> <<>>] }
  \cup { [kind |-> "data", data |-> SubSeq(RemoteRows, 1, n)] :
           n \in 1..Min(k, Len(RemoteRows)) }

\* similarities of retrieve: one dot product per corpus row
Similarities(mdl, embeddings, query_text) ==
  [i \in DOMAIN embeddings.rows |-> Dot(Encode(mdl, query_text), embeddings.rows[i])]

\* the result of one retrieve call: what it raised or returned, the
\* strategy that produced the value, the strategies attempted in order and
\* how the remote search ended ("skipped" when it was not asked)
Retrieved(r, strategy, tried, remote) ==
  [raised |-> r.raised, value |-> IF r.raised = "" THEN r.value ELSE <<>>,
   strategy |-> strategy, tried |-> tried, remote |-> remote]

\* self.documents after a call that set 'similarity' on the stored dicts
\* themselves (doc.copy() left out)
CorpusAfterInPlace(documents, result) ==
  [i \in DOMAIN documents |->
     IF result.strategy \in {"local", "keyword"}
        /\ \E j \in DOMAIN result.value : result.value[j].id = documents[i].id
     THEN CHOOSE d \in Range(result.value) : d.id = documents[i].id
     ELSE documents[i]]

\* self.documents after a retrieve call: scores are set on doc.copy(), the
\* sort orders the call's own list, so the stored dicts are as before
CorpusAfter(documents, result) == documents

\* the remote search was not asked
NotAsked == [kind |-> "skipped", data |-> <<>>]

\* how a remote answer ended: "skipped", "exception", "empty" or "rows"
RemoteKind(o) ==
  IF o.kind = "data" THEN (IF o.data = <<>> THEN "empty" ELSE "rows") ELSE o.kind

\* the lower tiers run after every remote answer (`return result.data` left out)
RemoteFallsThroughAlways(o) == TRUE

\* retrieve goes on to the lower tiers when the remote search was not
\* asked, raised, or answered with no data (`if result.data:` is false)
RemoteFallsThrough(o) == o.kind # "data" \/ o.data = <<>>

\* the rows of a local search carrying keyword overlap counts
LocalRowsKeywordScored(mdl, documents, embeddings, query_text, order) ==
  [i \in DOMAIN order |->
     WithSimilarity(documents[order[i]],
                    KeywordScore(documents[order[i]], WordSet(query_text)))]

\* the rows a local similarity search returns for one argsort order
LocalRows(mdl, documents, embeddings, query_text, order) ==
  [i \in DOMAIN order |->
     WithSimilarity(documents[order[i]],
                    Similarities(mdl, embeddings, query_text)[order[i]])]

\* retrieve(query_text, k) on a retriever (mdl, documents, embeddings) over
\* a database connection: the set of its possible outcomes, one for each
\* behaviour of what the call consults (the remote answer, model.encode
\* succeeding or raising, the argsort's order among equal similarities)
retrieve(mdl, documents, embeddings, connected, query_text, k) ==
  IF documents = <<>> THEN {Retrieved(Ret(<<>>), "none", <<>>, "skipped")}
  ELSE IF mdl = 0
  THEN {Retrieved(_keyword_search(documents, query_text, k), "keyword", <<"keyword">>,
                  "skipped")}
  ELSE LET triedRemote == IF connected THEN <<"remote">> ELSE <<>>
           answers == IF connected THEN RemoteOutcomes(k) ELSE {NotAsked}
           \* the remote search answered with rows: returned as received
           fromRemote ==
             {Retrieved(Ret(o.data), "remote", triedRemote, RemoteKind(o)) :
                o \in {a \in answers : ~RemoteFallsThrough(a)}}
           \* model.encode raised in the local tier: the outer handler
           encodeRaised(o) ==
             {Retrieved(_keyword_search(documents, query_text, k), "keyword",
                        triedRemote \o <<"local", "keyword">>, RemoteKind(o))}
           \* the local tier: similarity search when the index is built; an
           \* index beyond the documents is an IndexError, handled as above
           fromLocal(o) ==
             IF embeddings.built
             THEN {IF \A i \in DOMAIN order : order[i] \in DOMAIN documents
                   THEN Retrieved(Ret(LocalRows(mdl, documents, embeddings, query_text, order)),
                                  "local", triedRemote \o <<"local">>, RemoteKind(o))
                   ELSE Retrieved(_keyword_search(documents, query_text, k), "keyword",
                                  triedRemote \o <<"local", "keyword">>, RemoteKind(o)) :
                     order \in TopIndices(Similarities(mdl, embeddings, query_text), k)}
             ELSE {Retrieved(_keyword_search(documents, query_text, k), "keyword",
                             triedRemote \o <<"keyword">>, RemoteKind(o))}
       IN  fromRemote
           \cup UNION { encodeRaised(o) \cup fromLocal(o) :
                          o \in {a \in answers : RemoteFallsThrough(a)} }

\* ---- app/routes/query.py ----
\* f"Title: {title}\nContent: {content}" of one document; a null field is
\* formatted as the word None
ContextOf(doc) ==
  LET title == Get(doc, "title", Str(<<"N/A">>))
      content == Get(doc, "content", Get(doc, "snippet", Str(<<>>)))
      Fmt(x) == IF x.type = "str" THEN x.v ELSE <<"None">>
  IN  <<"Title:">> \o Fmt(title) \o <<"Content:">> \o Fmt(content)

\* prompt_template.format(context=..., query=..., image_context=...)
BuildPrompt(text, retrieved_docs, image_context) ==
  TemplatePre
  \o Concat([i \in DOMAIN retrieved_docs |-> ContextOf(retrieved_docs[i])])
  \o <<"Query:">> \o text
  \o (IF Truthy(image_context) THEN <<"Image", "Context:">> \o image_context.v ELSE <<>>)
  \o TemplatePost

\* the label formatted without looking at what db.get_image returned
ImageContextUnchecked(image_id, image_data) ==
  IF Truthy(image_id) THEN Str(<<"Image", "shows:", "None">>) ELSE None

\* the image context of a request: image_data is what db.get_image returned
ImageContext(image_id, image_data) ==
  IF Truthy(image_id) /\ Truthy(image_data) /\ Truthy(Get(image_data.v, "label", None))
  THEN Str(<<"Image", "shows:">> \o image_data.v["label"].v)
  ELSE None

\* QueryResponse(**response): the declared field types must fit
FitsQueryResponse(response) ==
  /\ {"answer", "confidence", "actions", "sources", "meta"} \subseteq DOMAIN response
  /\ response.answer.type = "str"
  /\ response.confidence.type = "number"
  /\ response.actions.type = "list"
  /\ response.sources.type = "list"

\* ---- inputs of the requests ----
Queries ==
  {QIrrigateWheat, QWheatIrrigation, QDisease, QPestWater, QSellSeed, QWeather,
   QPlanting, QHello, QEmpty}

\* retrieved_docs lists handed to synthesize_answer
DocLists ==
  { <<>>,
    <<FallbackDocuments[1]>>,
    <<FallbackDocuments[1], FallbackDocuments[8]>>,
    SubSeq(FallbackDocuments, 1, 3),
    SubSeq(FallbackDocuments, 1, 4),
    <<DocMaize, DocCotton>>,
    <<DocCotton, DocNullContent>>,
    <<DocNullSnippet>> }

ImageContexts == {None, Str(<<"Leaf", "sample">>)}

\* a complete answer object with the given confidence
AnswerJson(conf) ==
  Dict([answer |-> Str(<<"Irrigate", "weekly">>), confidence |-> conf,
        actions |-> List(<<Str(<<"Irrigate">>)>>), sources |-> List(<<>>)])

\* generated_text values
GeneratedTexts ==
  { BrokenText(<<"Irrigate", "weekly">>),
    BrokenText(<<>>),
    JsonText(AnswerJson(Num(50))),
    JsonText(AnswerJson(Num(95))),
    JsonText(AnswerJson(Str(<<"high">>))),
    JsonText(Dict([answer |-> Str(<<"Irrigate", "weekly">>), confidence |-> Num(50),
                   actions |-> List(<<>>)])),
    JsonText(Dict(<<>>)),
    JsonText(Num(5)),
    JsonText(None),
    JsonText(Str(<<"answer", "confidence", "actions", "sources">>)),
    JsonText(List(<<Str(<<"answer">>), Str(<<"confidence">>), Str(<<"actions">>),
                    Str(<<"sources">>)>>)),
    JsonText(List(<<>>)),
    None }

\* the request was not sent (no credentials)
NoRequest == [kind |-> "none", status |-> 0, body |-> None]

\* outcomes of requests.post: an exception (timeout, connection error), an
\* error status, or 200 with a JSON body of one of the known shapes
HttpOutcomes ==
  { [kind |-> "exception", status |-> 0, body |-> None],
    [kind |-> "response", status |-> 503, body |-> None],
    [kind |-> "response", status |-> 200, body |-> List(<<>>)],
    [kind |-> "response", status |-> 200, body |-> List(<<Num(1)>>)],
    [kind |-> "response", status |-> 200, body |-> Dict([error |-> Str(<<"loading">>)])] }
  \cup { [kind |-> "response", status |-> 200, body |-> List(<<Dict([generated_text |-> g])>>)]
         : g \in GeneratedTexts }
  \cup { [kind |-> "response", status |-> 200, body |-> Dict([generated_text |-> g])]
         : g \in {BrokenText(<<"Irrigate", "weekly">>), JsonText(AnswerJson(Num(50)))} }

\* the generation outcomes tried through the endpoint
EndpointHttp ==
  { [kind |-> "exception", status |-> 0, body |-> None] }
  \cup { [kind |-> "response", status |-> 200, body |-> List(<<Dict([generated_text |-> g])>>)]
         : g \in {BrokenText(<<"Irrigate", "weekly">>), JsonText(AnswerJson(Num(50))),
                  JsonText(AnswerJson(Str(<<"high">>))), JsonText(Num(5))} }

\* the texts posted to the endpoint
EndpointQueries == {QIrrigateWheat, QDisease, QSellSeed, QHello, QEmpty}

\* what db.get_image can return: nothing, or the stored row
ImageRows ==
  { None,
    Dict([id |-> Str(<<"img-1">>), label |-> Str(<<"Leaf", "sample">>)]),
    Dict([id |-> Str(<<"img-1">>), label |-> None]) }

\* ---- state ----
VARIABLES
  HF_API_KEY,   \* config.HF_API_KEY: None or the key
  connected,    \* db.is_connected(): the Supabase client exists
  model,        \* retriever.model: 0 for None, else the encoder
  documents,    \* retriever.documents
  embeddings,   \* retriever.embeddings: built is FALSE for None
  pc,           \* construction of the retriever: "new", "model", "ready"
  last,         \* the most recent completed call and its outcome
  market_cache, \* routes.market.market_cache: entries (key, data, timestamp)
  now           \* datetime.now().timestamp(), in seconds

vars == <<HF_API_KEY, connected, model, documents, embeddings, pc, last,
          market_cache, now>>

NoCall == [op |-> "none"]

\* DocumentRetriever.__init__ before its two loads, under any configuration
Init ==
  /\ HF_API_KEY \in {None, Str(<<"hf_key">>)}
  /\ connected \in BOOLEAN
  /\ model = 0
  /\ documents = <<>>
  /\ embeddings = [built |-> FALSE, rows |-> <<>>]
  /\ pc = "new"
  /\ last = NoCall
  /\ market_cache = {}
  /\ now = 0

\* _load_model: the encoder loads, or fails and leaves None
LoadModel ==
  /\ pc = "new"
  /\ model' \in 0..NumEncoders
  /\ pc' = "model"
  /\ UNCHANGED <<HF_API_KEY, connected, documents, embeddings, last, market_cache, now>>

\* the rows of model.encode over the documents' titles
EmbedTitles(mdl, docs) == [i \in DOMAIN docs |-> Encode(mdl, docs[i].title.v)]

\* texts = [doc["content"] for doc in self.documents]; model.encode(texts)
EmbedContents(mdl, docs) == [i \in DOMAIN docs |-> Encode(mdl, docs[i].content.v)]

\* the select on the docs table was not sent (no Supabase client)
NoSelect == [kind |-> "skipped", data |-> <<>>]

\* the outcomes of db.client.table("docs").select("*").execute()
StoreOutcomes ==
  {[kind |-> "exception", data |-> <<>>]}
  \cup {[kind |-> "data", data |-> rows] : rows \in StoreRows}

\* the built-in set replaces whatever the store returned
UseStoreNever(store) == FALSE

\* `if result.data:` under db.is_connected(): the store's rows are taken
UseStore(store) == store.kind = "data" /\ store.data # <<>>

\* _load_documents; store is the select's outcome, encodeOk model.encode's
LoadDocuments ==
  /\ pc = "model"
  /\ pc' = "ready"
  /\ \E store \in (IF connected THEN StoreOutcomes ELSE {NoSelect}),
        encodeOk \in BOOLEAN :
       /\ IF UseStore(store)
          THEN /\ documents' = store.data
               /\ UNCHANGED embeddings
          ELSE /\ documents' = FallbackDocuments
               /\ embeddings' =
                    IF model # 0 /\ encodeOk
                    THEN [built |-> TRUE, rows |-> EmbedContents(model, FallbackDocuments)]
                    ELSE embeddings
       /\ last' = [op |-> "load", store |-> store, encodeOk |-> encodeOk,
                   raised |-> ""]
  /\ UNCHANGED <<HF_API_KEY, connected, model, market_cache, now>>

\* one call retriever.retrieve(query_text, k)
Retrieve ==
  /\ pc = "ready" /\ last = NoCall
  /\ \E query_text \in Queries, k \in -1..MaxK :
       \E result \in retrieve(model, documents, embeddings, connected, query_text, k) :
         /\ last' = [op |-> "retrieve", query |-> query_text, k |-> k, result |-> result]
         /\ documents' = CorpusAfter(documents, result)
  /\ UNCHANGED <<HF_API_KEY, connected, model, embeddings, pc, market_cache, now>>

\* one call llm_client.synthesize_answer(prompt_text, retrieved_docs, image_context)
SynthesizeAnswer ==
  /\ pc = "ready" /\ last = NoCall
  /\ \E prompt_text \in Queries, retrieved_docs \in DocLists,
        image_context \in ImageContexts,
        http \in (IF PostsMade(HF_API_KEY) = 0 THEN {NoRequest} ELSE HttpOutcomes) :
       last' = [op |-> "synthesize", query |-> prompt_text, docs |-> retrieved_docs,
                image |-> image_context, http |-> http,
                posts |-> PostsMade(HF_API_KEY),
                result |-> synthesize_answer(HF_API_KEY, http, prompt_text,
                                             retrieved_docs, image_context)]
  /\ UNCHANGED <<HF_API_KEY, connected, model, documents, embeddings, pc, market_cache, now>>

\* one POST /api/query: retrieve, image context, prompt, synthesis, insert;
\* an exception in the handler becomes status 500
QueryAssistant ==
  /\ pc = "ready" /\ last = NoCall
  /\ \E text \in EndpointQueries, image_id \in {None, Str(<<"img-1">>)},
        query_id \in (IF connected THEN {None, Str(<<"q-1">>)} ELSE {None}),
        http \in (IF PostsMade(HF_API_KEY) = 0 THEN {NoRequest} ELSE EndpointHttp) :
       \E found \in retrieve(model, documents, embeddings, connected, text, 3),
          image_data \in (IF connected /\ Truthy(image_id) THEN ImageRows ELSE {None}) :
         LET image_context == ImageContext(image_id, image_data)
             prompt == BuildPrompt(text, found.value, image_context)
             response == synthesize_answer(HF_API_KEY, http, prompt, found.value, image_context)
             ok == found.raised = "" /\ response.raised = ""
                   /\ FitsQueryResponse(response.value)
             saved == IF Truthy(query_id)
                      THEN [response.value EXCEPT !.meta =
                              [key \in DOMAIN @ \cup {"query_id"} |->
                                 IF key = "query_id" THEN query_id ELSE @[key]]]
                      ELSE response.value
         IN  /\ last' = [op |-> "query", query |-> text, image_id |-> image_id,
                         image |-> image_context,
                         retrieved |-> found, http |-> http,
                         status |-> IF ok THEN 200 ELSE 500,
                         body |-> IF ok THEN saved ELSE <<>>]
             /\ documents' = CorpusAfter(documents, found)
  /\ UNCHANGED <<HF_API_KEY, connected, model, embeddings, pc, market_cache, now>>

\* the call returns to its caller, which may then issue the next one
Return ==
  /\ last # NoCall
  /\ last' = NoCall
  /\ UNCHANGED <<HF_API_KEY, connected, model, documents, embeddings, pc, market_cache, now>>

Next ==
  \/ LoadModel
  \/ LoadDocuments
  \/ Retrieve
  \/ SynthesizeAnswer
  \/ QueryAssistant
  \/ Return

Spec == Init /\ [][Next]_vars

\* ---- the load run again on the built retriever ----
\* _load_documents re-invoked, up to its assignment of self.documents: the
\* store's rows and return, or the built-in set with the embeddings still
\* to be computed
ReloadDocuments ==
  /\ pc = "ready" /\ last = NoCall
  /\ \E store \in (IF connected THEN StoreOutcomes ELSE {NoSelect}) :
       IF UseStore(store)
       THEN documents' = store.data /\ pc' = "ready"
       ELSE documents' = FallbackDocuments /\ pc' = "reloading"
  /\ UNCHANGED <<HF_API_KEY, connected, model, embeddings, last, market_cache, now>>

\* the rest of the re-invoked _load_documents: self.embeddings assigned
\* when the model is there and encode succeeds
ReloadEmbeddings ==
  /\ pc = "reloading" /\ last = NoCall
  /\ pc' = "ready"
  /\ \E encodeOk \in BOOLEAN :
       embeddings' = IF model # 0 /\ encodeOk
                     THEN [built |-> TRUE, rows |-> EmbedContents(model, FallbackDocuments)]
                     ELSE embeddings
  /\ UNCHANGED <<HF_API_KEY, connected, model, documents, last, market_cache, now>>

\* a retrieve call of another thread, at any point of the reload
RetrieveInFlight ==
  /\ pc \in {"ready", "reloading"} /\ last = NoCall
  /\ \E query_text \in {QWheatIrrigation, QPestWater, QHello}, k \in {1, MaxK} :
       \E result \in retrieve(model, documents, embeddings, connected, query_text, k) :
         /\ last' = [op |-> "retrieve", query |-> query_text, k |-> k, result |-> result]
         /\ documents' = CorpusAfter(documents, result)
  /\ UNCHANGED <<HF_API_KEY, connected, model, embeddings, pc, market_cache, now>>

NextReload ==
  \/ LoadModel
  \/ LoadDocuments
  \/ ReloadDocuments
  \/ ReloadEmbeddings
  \/ RetrieveInFlight
  \/ Return

ReloadSpec == Init /\ [][NextReload]_vars

\* ---- properties ----
AnswerFields == {"answer", "confidence", "actions", "sources", "meta"}

\* the last call was synthesize_answer and it returned
Synthesized == last.op = "synthesize" /\ last.result.raised = ""

\* the answer of the last synthesize_answer call came from the fallback
FromFallback == Synthesized /\ last.result.value.meta.mode \in {"demo", "fallback"}

\* C1: synthesize_answer never raises and returns an answer carrying
\* answer, confidence, actions, sources and meta, for every query, document
\* list (null fields included) and generation outcome.
C1_NeverRaises ==
  last.op = "synthesize" =>
    /\ last.result.raised = ""
    /\ AnswerFields \subseteq DOMAIN last.result.value

\* C2 as stated: in ai, fallback and demo mode alike the returned
\* confidence is a number in [0, 0.8].
C2_ConfidenceBoundedAllModes ==
  Synthesized =>
    /\ last.result.value.confidence.type = "number"
    /\ last.result.value.confidence.v \in 0..80

\* C2 amended: an answer returned in fallback or demo mode has a numeric
\* confidence in [0, 0.8]; an ai-mode answer carries the backend's value.
C2_FallbackConfidenceBounded ==
  FromFallback =>
    /\ last.result.value.confidence.type = "number"
    /\ last.result.value.confidence.v \in 0..80

\* a fallback answer built from three documents with snippets
C2_Witness ==
  /\ FromFallback
  /\ last.docs = SubSeq(FallbackDocuments, 1, 4)
  /\ last.result.value.confidence = Num(70)

\* the generated text the request produced is a JSON object with the four
\* required fields
ValidGeneration(http) ==
  /\ http.kind = "response" /\ http.status = 200
  /\ \/ http.body.type = "list" /\ Len(http.body.v) > 0
     \/ http.body.type = "dict"
  /\ LET holder == IF http.body.type = "list" THEN http.body.v[1] ELSE http.body
     IN  /\ holder.type = "dict"
         /\ "generated_text" \in DOMAIN holder.v
         /\ LET text == holder.v["generated_text"]
            IN  /\ text.type = "str" /\ text.parses
                /\ text.json.type = "dict"
                /\ Range(required_fields) \subseteq DOMAIN text.json.v

\* C3: whenever the generation attempt fails, synthesize_answer returns
\* exactly what _deterministic_fallback produces for the same inputs, and
\* no error is surfaced: the outcome of the call is the outcome of the
\* fallback, so the failed generation adds no exception of its own.
C3_FailureEqualsFallback ==
  (last.op = "synthesize" /\ ~DemoMode(HF_API_KEY) /\ ~ValidGeneration(last.http)) =>
    last.result = _deterministic_fallback(HF_API_KEY, last.query, last.docs, last.image)

\* C4: retrieve never raises, whatever the documents' fields are, and on an
\* empty Knowledge Store returns the empty sequence with no strategy tried.
C4_RetrieveNeverRaises ==
  last.op = "retrieve" =>
    /\ last.result.raised = ""
    /\ (documents = <<>> => last.result.value = <<>> /\ last.result.tried = <<>>)

\* C5: retrieve(query, k) returns at most k documents for every k >= 0,
\* under each of the three strategies.
C5_AtMostK ==
  (last.op = "retrieve" /\ last.k >= 0 /\ last.result.raised = "") =>
    Len(last.result.value) <= last.k

\* a local similarity search cut to k = 2 of the eight documents
C5_Witness ==
  /\ last.op = "retrieve" /\ last.k = 2
  /\ last.result.strategy = "local"
  /\ Len(last.result.value) = 2
  /\ Len(documents) > 2

\* C6: the sequence retrieve returns is in non-increasing order of
\* similarity, whichever strategy produced it.
C6_Descending ==
  (last.op = "retrieve" /\ last.result.raised = "") =>
    \A i, j \in DOMAIN last.result.value :
      i < j => last.result.value[i].similarity.v >= last.result.value[j].similarity.v

\* a keyword result whose first document scores strictly more than its
\* second although it was loaded later
C6_Witness ==
  /\ last.op = "retrieve" /\ last.result.strategy = "keyword"
  /\ Len(last.result.value) >= 2
  /\ last.result.value[1].similarity.v > last.result.value[2].similarity.v
  /\ \E i, j \in DOMAIN documents :
       /\ i < j
       /\ documents[j].id = last.result.value[1].id
       /\ documents[i].id = last.result.value[2].id

\* C7: keyword-mode retrieval never returns a document sharing no token
\* with the query, even if fewer than k remain; every score is >= 1.
C7_KeywordExcludesZero ==
  (last.op = "retrieve" /\ last.result.strategy = "keyword" /\ last.result.raised = "") =>
    \A i \in DOMAIN last.result.value :
      /\ last.result.value[i].similarity.v >= 1
      /\ WordSet(last.query)
           \cap (WordSet(Get(last.result.value[i], "title", Str(<<>>)).v)
                 \cup WordSet(Get(last.result.value[i], "content", Str(<<>>)).v)) # {}

\* a keyword search that returns fewer than k documents, some matching
C7_Witness ==
  /\ last.op = "retrieve" /\ last.result.strategy = "keyword"
  /\ last.result.raised = ""
  /\ last.k = 3
  /\ Len(last.result.value) \in 1..2
  /\ Len(documents) >= 3

\* the number of documents among the first three that have a non-empty snippet
SnippetCount(docs) ==
  Cardinality({i \in 1..Min(3, Len(docs)) : Truthy(Get(docs[i], "snippet", None))})

\* C8 as stated: the fallback confidence is
\* min(0.8, 0.4 + 0.1 * min(3, number of retrieved documents)).
C8_ConfidenceByDocCount ==
  FromFallback =>
    last.result.value.confidence = Num(Min(80, 40 + 10 * Min(3, Len(last.docs))))

\* C8 amended: the fallback confidence is min(0.8, 0.4 + 0.1 * n), n the
\* number of documents among the first three retrieved that have a
\* non-empty snippet; query text and image context do not enter.
C8_ConfidenceBySnippetCount ==
  FromFallback =>
    last.result.value.confidence = Num(Min(80, 40 + 10 * SnippetCount(last.docs)))

\* a fallback answer over two documents of which one has no snippet
C8_Witness ==
  /\ FromFallback
  /\ last.docs = <<DocMaize, DocCotton>>
  /\ last.result.value.confidence = Num(50)

\* C9: with no retrieved documents and no generation backend the answer is
\* non-empty, there are exactly 3 actions, no sources, and confidence 0.4.
C9_EmptyRetrievalDemo ==
  (last.op = "synthesize" /\ HF_API_KEY = None /\ last.docs = <<>>) =>
    /\ last.result.raised = ""
    /\ last.result.value.answer.type = "str"
    /\ last.result.value.answer.v # <<>>
    /\ Len(last.result.value.actions.v) = 3
    /\ last.result.value.sources = List(<<>>)
    /\ last.result.value.confidence = Num(40)

\* the generic referral for a query that matches no category
C9_Witness ==
  /\ last.op = "synthesize" /\ HF_API_KEY = None /\ last.docs = <<>>
  /\ last.query = QHello /\ last.image = None
  /\ last.result.value.answer = Str(GenericReferral)
  /\ last.result.value.actions = List(DefaultActions)

\* the scenario of C10: the irrigation query posted without an image, no
\* generation credentials, documents retrieved from the built-in corpus
IrrigationScenario ==
  /\ last.op = "query" /\ last.query = QIrrigateWheat /\ last.image = None
  /\ HF_API_KEY = None
  /\ documents = FallbackDocuments
  /\ last.retrieved.strategy \in {"keyword", "local"}

\* the rest of C10: irrigation guidance, 3 actions, confidence in [0.4, 0.8]
IrrigationAnswer ==
  /\ last.status = 200
  /\ SubSeq(last.body.answer.v, 1, 1) = IrrigationBase
  /\ Len(last.body.actions.v) = 3
  /\ last.body.confidence.v \in 40..80

\* C10 as stated: the answer to "When should I irrigate wheat?" with no
\* generation backend and the built-in corpus has meta.mode "fallback".
C10_ModeFallback ==
  IrrigationScenario => (IrrigationAnswer /\ last.body.meta.mode = "fallback")

\* C10 amended: the same answer has meta.mode "demo", irrigation guidance,
\* exactly 3 actions and confidence in [0.4, 0.8].
C10_ModeDemo ==
  IrrigationScenario => (IrrigationAnswer /\ last.body.meta.mode = "demo")

\* the keyword search finds documents 1 and 8 and the answer quotes the first
C10_Witness ==
  /\ IrrigationScenario
  /\ last.retrieved.strategy = "keyword"
  /\ Len(last.retrieved.value) = 2
  /\ last.body.confidence = Num(60)
  /\ last.body.answer = Str(IrrigationBase \o FallbackDocuments[1].snippet.v)

\* the last synthesize_answer call returned what _deterministic_fallback
\* computed for its inputs
RanFallback ==
  /\ Synthesized
  /\ last.result = _deterministic_fallback(HF_API_KEY, last.query, last.docs, last.image)

\* C11: an answer produced by the deterministic fallback has meta.mode
\* "demo" exactly when no generation credentials are configured and
\* "fallback" exactly when they are configured and the generation attempt
\* yielded no valid answer; it never has meta.mode "ai".
C11_FallbackMode ==
  RanFallback =>
    /\ (last.result.value.meta.mode = "demo") <=> ~Truthy(HF_API_KEY)
    /\ (last.result.value.meta.mode = "fallback")
         <=> (Truthy(HF_API_KEY) /\ ~ValidGeneration(last.http))
    /\ last.result.value.meta.mode # "ai"

\* credentials configured, the backend answered prose: mode "fallback"
C11_Witness ==
  /\ RanFallback
  /\ Truthy(HF_API_KEY)
  /\ last.http.kind = "response" /\ last.http.status = 200
  /\ last.result.value.meta.mode = "fallback"

\* C12: with no generation credentials and no database connection,
\* POST /api/query answers 200 for every query text, with or without an
\* image_id; the body has a non-empty string answer, a numeric confidence,
\* list-valued actions and sources, a meta with mode "demo" or "fallback";
\* an image_id with no stored metadata gives no image context.
C12_DemoQuerySucceeds ==
  (last.op = "query" /\ ~Truthy(HF_API_KEY) /\ ~connected) =>
    /\ last.status = 200
    /\ last.body.answer.type = "str" /\ last.body.answer.v # <<>>
    /\ last.body.confidence.type = "number"
    /\ last.body.actions.type = "list"
    /\ last.body.sources.type = "list"
    /\ "mode" \in DOMAIN last.body.meta
    /\ last.body.meta.mode \in {"demo", "fallback"}
    /\ last.image = None

\* the disease query posted with an image_id nothing is stored for
C12_Witness ==
  /\ last.op = "query" /\ ~Truthy(HF_API_KEY) /\ ~connected
  /\ last.query = QDisease
  /\ last.image_id = Str(<<"img-1">>)
  /\ last.status = 200
  /\ last.image = None
  /\ last.body.meta.mode = "demo"
  /\ last.body.answer.v # <<>>

\* C13: on the built-in corpus under the keyword strategy,
\* retrieve("wheat irrigation", 3) returns the document titled
\* "Wheat Irrigation Guidelines" first.
C13_WheatIrrigationFirst ==
  (/\ last.op = "retrieve" /\ last.query = QWheatIrrigation /\ last.k = 3
   /\ documents = FallbackDocuments
   /\ last.result.strategy = "keyword") =>
    /\ last.result.raised = ""
    /\ Len(last.result.value) >= 1
    /\ last.result.value[1].title = Str(<<"Wheat", "Irrigation", "Guidelines">>)

\* the keyword search scores that document 2*2 + 2 = 6 and ranks it above
\* the one other document sharing a word with the query
C13_Witness ==
  /\ last.op = "retrieve" /\ last.query = QWheatIrrigation /\ last.k = 3
  /\ documents = FallbackDocuments
  /\ last.result.strategy = "keyword"
  /\ Len(last.result.value) = 2
  /\ last.result.value[1].similarity = Num(6)
  /\ last.result.value[2].similarity = Num(1)

\* the position of a strategy in the selection policy
TierRank(s) == CASE s = "remote" -> 1 [] s = "local" -> 2 [] s = "keyword" -> 3

\* the strategies were attempted in the order remote, local, keyword, the
\* value came from the last one attempted, and a tier was passed over only
\* when unavailable: remote without a connection or an encoder for the
\* query, local without an encoder or a built index
TiersInOrder ==
  LET tried == last.result.tried
  IN  /\ \A i, j \in DOMAIN tried : i < j => TierRank(tried[i]) < TierRank(tried[j])
      /\ tried # <<>> => last.result.strategy = tried[Len(tried)]
      /\ (tried # <<>> /\ tried[1] # "remote") => (~connected \/ model = 0)
      /\ (tried # <<>> /\ \A i \in DOMAIN tried : tried[i] # "local")
           => (last.result.strategy = "remote" \/ model = 0 \/ ~embeddings.built)

\* a tier below the remote search was attempted in the last retrieve call
BelowRemoteTried ==
  /\ Len(last.result.tried) >= 2
  /\ last.result.tried[1] = "remote"

\* C14 as stated: the strategies are tried in the order remote, local,
\* keyword, and a tier below the remote search is attempted only if the
\* remote search failed; its failure gives the result of a lower tier.
C14_LowerTierOnlyAfterFailure ==
  last.op = "retrieve" =>
    /\ TiersInOrder
    /\ BelowRemoteTried => last.result.remote = "exception"
    /\ last.result.remote = "exception" => last.result.strategy \in {"local", "keyword"}

\* C14 amended: the strategies are tried in the order remote, local,
\* keyword; a tier below the remote search is attempted only if the remote
\* search failed or answered with no rows, and rows it answers with are
\* returned at once; a remote failure is never surfaced: the call then ends
\* as its lower tier does, an error raised being the keyword search's own.
C14_LowerTierAfterFailureOrNoRows ==
  last.op = "retrieve" =>
    /\ TiersInOrder
    /\ BelowRemoteTried => last.result.remote \in {"exception", "empty"}
    /\ last.result.remote = "rows" =>
         (last.result.strategy = "remote" /\ last.result.tried = <<"remote">>
          /\ last.result.raised = "")
    /\ last.result.remote \in {"exception", "empty"} =>
         /\ last.result.strategy \in {"local", "keyword"}
         /\ last.result.strategy = "local" => last.result.raised = ""
         /\ last.result.strategy = "keyword" =>
              LET r == _keyword_search(documents, last.query, last.k)
              IN  /\ last.result.raised = r.raised
                  /\ r.raised = "" => last.result.value = r.value

\* the remote search raised and the call returned three documents ranked
\* by the local index
C14_Witness ==
  /\ last.op = "retrieve" /\ last.k = 3
  /\ last.result.remote = "exception"
  /\ last.result.tried = <<"remote", "local">>
  /\ last.result.raised = ""
  /\ Len(last.result.value) = 3

\* C15: loading the Knowledge Store never fails and leaves a non-empty
\* document sequence: the external store's documents when the store is
\* reachable and returns at least one, otherwise (not configured,
\* erroring or empty) the built-in set.
C15_LoadNeverEmpty ==
  last.op = "load" =>
    /\ last.raised = ""
    /\ documents # <<>>
    /\ IF connected /\ last.store.kind = "data" /\ last.store.data # <<>>
       THEN documents = last.store.data
       ELSE documents = FallbackDocuments /\ Len(documents) = 8

\* a configured store that answers the select with no rows
C15_Witness ==
  /\ last.op = "load" /\ connected
  /\ last.store = [kind |-> "data", data |-> <<>>]
  /\ documents = FallbackDocuments

\* the index holds one embedding per loaded document, row i for document i
OnePerDocument ==
  /\ embeddings.built
  /\ Len(embeddings.rows) = Len(documents)
  /\ \A i \in DOMAIN documents :
       embeddings.rows[i] = Encode(model, documents[i].content.v)

\* C16 as stated: after the build, if the embedding model is available
\* (loaded, and its encode call succeeded) the index holds one embedding
\* per loaded document, from the external store or the built-in set
\* alike; otherwise the index is empty and the build did not fail.
C16_IndexForEveryCorpus ==
  last.op = "load" =>
    /\ last.raised = ""
    /\ IF model # 0 /\ last.encodeOk THEN OnePerDocument ELSE ~embeddings.built

\* C16 amended: the index is built only over the built-in set: it holds
\* one embedding per document when the documents are the built-in ones and
\* the model is available, and is empty when the documents came from the
\* external store or the embedding backend is unavailable; the build
\* never fails.
C16_IndexForBuiltInOnly ==
  /\ last.op = "load" =>
       /\ last.raised = ""
       /\ IF model # 0 /\ last.encodeOk /\ ~UseStore(last.store)
          THEN OnePerDocument /\ documents = FallbackDocuments
          ELSE ~embeddings.built /\ embeddings.rows = <<>>
  /\ (pc = "ready" /\ embeddings.built) => OnePerDocument

\* documents loaded from the external store with the model available:
\* no index
C16_Witness ==
  /\ last.op = "load" /\ model # 0 /\ last.encodeOk
  /\ documents = <<DocMaize, DocCotton>>
  /\ ~embeddings.built

\* the JSON object the generation backend produced in the last call
GeneratedObject ==
  LET holder == IF last.http.body.type = "list" THEN last.http.body.v[1] ELSE last.http.body
  IN  holder.v["generated_text"].json.v

\* C17: when the generated text parses as a JSON object with answer, confidence,
\* actions and sources all present, synthesize_answer returns that parsed
\* object, its fields untouched, tagged meta.mode "ai" (so the fallback's
\* answer is not the one returned); in every other case the returned
\* meta.mode is not "ai".
C17_AiOnlyForValidGeneration ==
  last.op = "synthesize" =>
    IF Truthy(HF_API_KEY) /\ ValidGeneration(last.http)
    THEN /\ last.result.raised = ""
         /\ last.result.value.meta = [mode |-> "ai", model |-> HF_MODEL]
         /\ DOMAIN last.result.value = DOMAIN GeneratedObject \cup {"meta"}
         /\ \A f \in DOMAIN GeneratedObject : last.result.value[f] = GeneratedObject[f]
         /\ last.result
              # _deterministic_fallback(HF_API_KEY, last.query, last.docs, last.image)
    ELSE last.result.raised = "" => last.result.value.meta.mode # "ai"

\* a complete generated answer returned in ai mode with its own confidence
C17_Witness ==
  /\ last.op = "synthesize" /\ Truthy(HF_API_KEY) /\ ValidGeneration(last.http)
  /\ last.result.value.meta.mode = "ai"
  /\ last.result.value.answer = Str(<<"Irrigate", "weekly">>)
  /\ last.result.value.confidence = Num(95)

\* C18: one synthesize_answer call requests the generation backend at most
\* once, whatever the outcome of the request, and not at all when no
\* generation credentials are configured; the answer then comes from the
\* fallback.
C18_AtMostOneRequest ==
  last.op = "synthesize" =>
    /\ last.posts <= 1
    /\ (last.http = NoRequest) <=> (last.posts = 0)
    /\ ~Truthy(HF_API_KEY) =>
         /\ last.posts = 0
         /\ last.result
              = _deterministic_fallback(HF_API_KEY, last.query, last.docs, last.image)
         /\ last.result.raised = "" => last.result.value.meta.mode = "demo"

\* a request that timed out, answered by the fallback with no second
\* request
C18_Witness ==
  /\ last.op = "synthesize" /\ Truthy(HF_API_KEY)
  /\ last.http.kind = "exception"
  /\ last.posts = 1
  /\ last.result.raised = ""
  /\ last.result.value.meta.mode = "fallback"

\* C19: query handling never mutates the shared corpus: every step taken
\* once the retriever is built (retrieve under any strategy, the endpoint,
\* synthesis) leaves the documents and the index as the load left them,
\* and no stored document carries a similarity score.
C19_CorpusUnchanged ==
  [][pc = "ready" =>
       /\ documents' = documents
       /\ embeddings' = embeddings
       /\ \A i \in DOMAIN documents' : "similarity" \notin DOMAIN documents'[i]]_vars

\* a keyword search returned scored copies while the stored documents
\* carry no score
C19_Witness ==
  /\ last.op = "retrieve" /\ last.result.strategy = "keyword"
  /\ Len(last.result.value) >= 1
  /\ \A j \in DOMAIN last.result.value :
       /\ "similarity" \in DOMAIN last.result.value[j]
       /\ \E i \in DOMAIN documents :
            /\ documents[i].id = last.result.value[j].id
            /\ "similarity" \notin DOMAIN documents[i]

\* the (documents, index) pairs one complete run of the load can leave
CompleteBuilds ==
  { <<rows, [built |-> FALSE, rows |-> <<>>]>> : rows \in StoreRows \ {<<>>} }
  \cup { <<FallbackDocuments, [built |-> FALSE, rows |-> <<>>]>> }
  \cup { <<FallbackDocuments, [built |-> TRUE, rows |-> EmbedContents(m, FallbackDocuments)]>> :
           m \in 1..NumEncoders }

\* C20: when the load is run again while queries are in flight, every
\* retrieve call sees documents and embeddings of one and the same build:
\* a pair that a complete run of the load leaves, never the documents of
\* one run with the index of another.
C20_RetrieveSeesOneBuild ==
  last.op = "retrieve" => <<documents, embeddings>> \in CompleteBuilds

\* the earliest category of the answer cascade that a query matches
FirstCategory(query, image_context) ==
  IF Truthy(image_context) THEN "image"
  ELSE IF \E w \in {"irrigate", "water", "rain", "weather"} : KeywordIn(w, query)
  THEN "irrigation"
  ELSE IF \E w \in {"pest", "disease", "insect", "fungus"} : KeywordIn(w, query)
  THEN "pest"
  ELSE IF \E w \in {"plant", "sow", "seed", "timing"} : KeywordIn(w, query)
  THEN "planting"
  ELSE IF \E w \in {"price", "market", "sell", "buy"} : KeywordIn(w, query)
  THEN "market"
  ELSE "generic"

\* the opening of the answer of each branch
BranchOpening(category, query, image_context) ==
  CASE category = "image" ->
         IF KeywordIn("disease", query) \/ KeywordIn("pest", query)
         THEN <<"Based on the uploaded image showing">> \o image_context.v
              \o <<", I can see potential issues that may require attention.">>
         ELSE <<"From the uploaded image of">> \o image_context.v \o <<",">>
    [] category = "irrigation" -> IrrigationBase
    [] category = "pest" -> PestBase
    [] category = "planting" -> PlantingBase
    [] category = "market" -> MarketBase
    [] category = "generic" -> <<"Based on agricultural best practices:">>

\* the snippets of the first three documents of the last call
LastSnippets == ContextSnippets(PySliceTo(last.docs, 3))

\* C21: the fallback answer is chosen by a first-match-wins cascade over
\* the lowercased query in the order image context, irrigation/weather,
\* pest/disease, planting, market/price, generic; the answer opens with
\* the text of the earliest matching category, followed by retrieved
\* snippets when there are any (the first, or the first two joined for the
\* image and generic branches) and by a static sentence otherwise.
C21_FirstMatchWins ==
  FromFallback =>
    LET category == FirstCategory(last.query, last.image)
        opening == BranchOpening(category, last.query, last.image)
        answer == last.result.value.answer.v
    IN  IF LastSnippets # <<>>
        THEN answer = opening \o (IF category \in {"image", "generic"}
                                  THEN JoinFirstTwo(LastSnippets)
                                  ELSE LastSnippets[1])
        ELSE IF category = "generic" THEN answer = GenericReferral
        ELSE /\ Len(answer) = Len(opening) + 1
             /\ SubSeq(answer, 1, Len(opening)) = opening

\* "PEST in water" matches the pest and the irrigation keywords and gets
\* the irrigation branch with the first snippet
C21_Witness ==
  /\ FromFallback
  /\ last.query = QPestWater /\ last.image = None
  /\ LastSnippets # <<>>
  /\ last.result.value.answer.v = IrrigationBase \o LastSnippets[1]

\* the fixed strings a category of the answer cascade would contribute
CategoryActions(category) ==
  CASE category \in {"image", "pest"} -> DiagnosisActions
    [] category = "irrigation" -> IrrigationActions
    [] category = "planting" -> PlantingActions
    [] category = "market" -> MarketActions

\* the categories of the answer cascade a query matches, in its order
AnswerCategories(query, image_context) ==
  (IF Truthy(image_context) THEN <<"image">> ELSE <<>>)
  \o (IF \E w \in {"irrigate", "water", "rain", "weather"} : KeywordIn(w, query)
      THEN <<"irrigation">> ELSE <<>>)
  \o (IF \E w \in {"pest", "disease", "insect", "fungus"} : KeywordIn(w, query)
      THEN <<"pest">> ELSE <<>>)
  \o (IF \E w \in {"plant", "sow", "seed", "timing"} : KeywordIn(w, query)
      THEN <<"planting">> ELSE <<>>)
  \o (IF \E w \in {"price", "market", "sell", "buy"} : KeywordIn(w, query)
      THEN <<"market">> ELSE <<>>)

\* the categories of _generate_actions a query matches, in its order
ActionCategories(query, image_context) ==
  (IF Truthy(image_context) \/ \E w \in {"disease", "pest", "problem"} : KeywordIn(w, query)
   THEN <<"pest">> ELSE <<>>)
  \o (IF \E w \in {"irrigate", "water"} : KeywordIn(w, query)
      THEN <<"irrigation">> ELSE <<>>)
  \o (IF \E w \in {"plant", "sow", "seed"} : KeywordIn(w, query)
      THEN <<"planting">> ELSE <<>>)
  \o (IF \E w \in {"market", "price", "sell"} : KeywordIn(w, query)
      THEN <<"market">> ELSE <<>>)

\* the contributions of the categories, concatenated and cut to 3, or the
\* default list when there is none
ActionsOf(categories) ==
  IF categories = <<>> THEN DefaultActions
  ELSE SubSeq(Concat([i \in DOMAIN categories |-> CategoryActions(categories[i])]), 1, 3)

\* C22 as stated: the action list follows the cascade of the answer text
\* (same categories, keywords and order): the matched categories'
\* strings concatenated and cut to exactly 3, the default list when no
\* category matches.
C22_ActionsFollowAnswerCascade ==
  FromFallback =>
    last.result.value.actions.v = ActionsOf(AnswerCategories(last.query, last.image))

\* C22 amended: the action list follows the cascade of _generate_actions:
\* diagnosis (image context, or disease/pest/problem), irrigation
\* (irrigate/water), planting (plant/sow/seed), market (market/price/sell);
\* the matched categories' strings concatenated in that order and cut to
\* exactly 3, the default list when no category matches.
C22_ActionsFollowOwnCascade ==
  FromFallback =>
    /\ last.result.value.actions.v = ActionsOf(ActionCategories(last.query, last.image))
    /\ Len(last.result.value.actions.v) = 3

\* "weather" gets the irrigation answer and the default actions
C22_Witness ==
  /\ FromFallback
  /\ last.query = QWeather /\ last.image = None
  /\ SubSeq(last.result.value.answer.v, 1, 1) = IrrigationBase
  /\ last.result.value.actions.v = DefaultActions

\* the cascade branch a fallback answer text comes from
AnswerBranch(answer) ==
  CASE answer = GenericReferral -> "generic"
    [] Head(answer) = Head(IrrigationBase) -> "irrigation"
    [] Head(answer) = Head(PestBase) -> "pest"
    [] Head(answer) = Head(PlantingBase) -> "planting"
    [] Head(answer) = Head(MarketBase) -> "market"
    [] Head(answer) = "Based on agricultural best practices:" -> "generic"
    [] OTHER -> "image"

\* the last call was POST /api/query and was answered by the fallback
QueryFromFallback ==
  /\ last.op = "query" /\ last.status = 200
  /\ last.body.meta.mode \in {"demo", "fallback"}

\* the fallback answers the same request (same text, same image context)
\* gets from the same service when retrieval hands back another list of
\* documents
OtherFallbackAnswers ==
  LET others == { r \in retrieve(model, documents, embeddings, connected, last.query, 3) :
                    r.raised = "" }
      answers == { synthesize_answer(HF_API_KEY, last.http,
                                     BuildPrompt(last.query, o.value, last.image),
                                     o.value, last.image) : o \in others }
  IN  { a \in answers : a.raised = "" /\ a.value.meta.mode \in {"demo", "fallback"} }

\* C23: through the query endpoint the fallback answer branch and the
\* action list depend on the user's text and the image context alone: the
\* same request answered over different retrieved documents gets the same
\* branch and the same actions, which are those of the text itself.
C23_BranchIndependentOfDocuments ==
  QueryFromFallback =>
    /\ \A a \in OtherFallbackAnswers :
         /\ AnswerBranch(a.value.answer.v) = AnswerBranch(last.body.answer.v)
         /\ a.value.actions = last.body.actions
    /\ AnswerBranch(last.body.answer.v) = FirstCategory(last.query, last.image)

\* a parsed generation fits the answer schema exactly: the four fields and
\* no other, a string answer, a confidence in [0, 1], at most 3 string
\* actions, a list of sources
FitsAnswerSchema(obj) ==
  /\ DOMAIN obj = Range(required_fields)
  /\ obj.answer.type = "str"
  /\ obj.confidence.type = "number" /\ obj.confidence.v \in 0..100
  /\ obj.actions.type = "list" /\ Len(obj.actions.v) <= 3
  /\ \A i \in DOMAIN obj.actions.v : obj.actions.v[i].type = "str"
  /\ obj.sources.type = "list"

\* C24: a generation response is returned in ai mode only if it fits the
\* answer schema exactly; with a missing, extra or mismatched field the
\* fallback answer is returned instead.
C24_AiOnlyIfSchemaFits ==
  (Synthesized /\ Truthy(HF_API_KEY) /\ ValidGeneration(last.http)) =>
    IF FitsAnswerSchema(GeneratedObject)
    THEN last.result.value.meta.mode = "ai"
    ELSE last.result
           = _deterministic_fallback(HF_API_KEY, last.query, last.docs, last.image)

\* C25: the fallback sources list has exactly min(3, number of retrieved
\* documents) entries; entry i carries the title and url of retrieved
\* document i and the first 100 characters of its snippet followed by
\* "..."; with no retrieved documents it is empty.
C25_SourcesFromFirstThree ==
  FromFallback =>
    LET sources == last.result.value.sources.v
    IN  /\ Len(sources) = Min(3, Len(last.docs))
        /\ last.docs = <<>> => sources = <<>>
        /\ \A i \in DOMAIN sources :
             LET snippet == IF "snippet" \in DOMAIN last.docs[i]
                            THEN last.docs[i].snippet.v ELSE <<>>
             IN  /\ "title" \in DOMAIN last.docs[i] => sources[i].title = last.docs[i].title
                 /\ "url" \in DOMAIN last.docs[i] => sources[i].url = last.docs[i].url
                 /\ sources[i].snippet.of = snippet
                 /\ sources[i].snippet.chars
                      = (IF CharLen(snippet) > 100 THEN 100 ELSE CharLen(snippet))
                 /\ sources[i].snippet.tail = "..."

\* four documents retrieved, three sources, the first a snippet of 155
\* characters cut to 100
C25_Witness ==
  /\ FromFallback
  /\ Len(last.docs) = 4
  /\ Len(last.result.value.sources.v) = 3
  /\ CharLen(last.docs[1].snippet.v) = 155
  /\ last.result.value.sources.v[1].snippet.chars = 100

\* 2 * |query tokens /\ title tokens| + |query tokens /\ content tokens|
\* of stored document i for the query of the last call
OverlapScore(i) ==
  LET q == {Lower(last.query[n]) : n \in DOMAIN last.query}
      title == {Lower(documents[i].title.v[n]) : n \in DOMAIN documents[i].title.v}
      content == {Lower(documents[i].content.v[n]) : n \in DOMAIN documents[i].content.v}
  IN  2 * Cardinality(q \cap title) + Cardinality(q \cap content)

\* the position in the corpus of a returned document
LoadIndex(doc) == CHOOSE i \in DOMAIN documents : documents[i].id = doc.id

\* the last call was a keyword-mode retrieve(query, k), k >= 0, that returned
KeywordReturned ==
  /\ last.op = "retrieve" /\ last.result.strategy = "keyword"
  /\ last.result.raised = "" /\ last.k >= 0

\* C26: in keyword mode every returned document carries the score
\* 2 * |query /\ title| + |query /\ content| over lowercase word sets; the
\* result is the k highest-scoring documents with score > 0, in descending
\* order of score, documents of equal score in their load order.
C26_KeywordTopK ==
  KeywordReturned =>
    LET value == last.result.value
        positive == {i \in DOMAIN documents : OverlapScore(i) > 0}
        returned == {LoadIndex(value[n]) : n \in DOMAIN value}
    IN  /\ Len(value) = Min(last.k, Cardinality(positive))
        /\ Cardinality(returned) = Len(value)
        /\ returned \subseteq positive
        /\ \A n \in DOMAIN value :
             value[n].similarity = Num(OverlapScore(LoadIndex(value[n])))
        /\ \A n, m \in DOMAIN value :
             n < m => \/ value[n].similarity.v > value[m].similarity.v
                      \/ /\ value[n].similarity.v = value[m].similarity.v
                         /\ LoadIndex(value[n]) < LoadIndex(value[m])
        /\ \A i \in positive \ returned, j \in returned :
             \/ OverlapScore(j) > OverlapScore(i)
             \/ OverlapScore(j) = OverlapScore(i) /\ j < i

\* the first and the eighth document, both of score 1, returned in load
\* order
C26_Witness ==
  /\ KeywordReturned /\ last.k = 2
  /\ last.query = QIrrigateWheat
  /\ Len(last.result.value) = 2
  /\ last.result.value[1].similarity = Num(1)
  /\ last.result.value[2].similarity = Num(1)
  /\ LoadIndex(last.result.value[1]) = 1
  /\ LoadIndex(last.result.value[2]) = 8

\* the dot product of the query's embedding with that of stored document i
LocalScore(i) ==
  LET q == Encode(model, last.query)
      d == Encode(model, documents[i].content.v)
  IN  q[1] * d[1] + q[2] * d[2]

\* the last call was a local-mode retrieve(query, k), k >= 0
LocalReturned ==
  /\ last.op = "retrieve" /\ last.result.strategy = "local"
  /\ last.result.raised = "" /\ last.k >= 0

\* the returned documents are k of the highest similarity, each carrying
\* its own score, in non-increasing order
LocalTopK ==
  LET value == last.result.value
      returned == {LoadIndex(value[n]) : n \in DOMAIN value}
  IN  /\ Len(value) = Min(last.k, Len(documents))
      /\ Cardinality(returned) = Len(value)
      /\ \A n \in DOMAIN value : value[n].similarity = Num(LocalScore(LoadIndex(value[n])))
      /\ \A n, m \in DOMAIN value : n < m => value[n].similarity.v >= value[m].similarity.v
      /\ \A i \in DOMAIN documents \ returned, j \in returned : LocalScore(j) >= LocalScore(i)

\* C27 as stated: in local embedding mode retrieve returns the k documents
\* of highest similarity and, among documents of equal similarity, the one
\* loaded earlier first, in the selection and in the order returned.
C27_LocalTiesByLoadOrder ==
  LocalReturned =>
    LET value == last.result.value
        returned == {LoadIndex(value[n]) : n \in DOMAIN value}
    IN  /\ LocalTopK
        /\ \A n, m \in DOMAIN value :
             (n < m /\ value[n].similarity = value[m].similarity)
               => LoadIndex(value[n]) < LoadIndex(value[m])
        /\ \A i \in DOMAIN documents \ returned, j \in returned :
             LocalScore(j) = LocalScore(i) => j < i

\* C27 amended: in local embedding mode retrieve returns k documents of
\* highest similarity in non-increasing order of similarity; the order
\* among documents of equal similarity, and which of them are kept at the
\* cut, is the reversed argsort's and is not the load order.
C27_LocalTopKAnyTieOrder ==
  LocalReturned => LocalTopK

\* two documents of equal similarity returned with the later-loaded first
C27_Witness ==
  /\ LocalReturned /\ last.k = 2
  /\ Len(last.result.value) = 2
  /\ last.result.value[1].similarity = last.result.value[2].similarity
  /\ LoadIndex(last.result.value[1]) > LoadIndex(last.result.value[2])

\* C28: the documents one retrieve call returns carry scores of one and
\* the same strategy, the one that produced the result: the remote
\* search's own scores, local dot products, or keyword overlap counts,
\* also when a higher tier failed and a lower tier took over.
C28_OneScoreScale ==
  (last.op = "retrieve" /\ last.result.raised = "") =>
    LET value == last.result.value
    IN  CASE last.result.strategy = "remote" ->
               \A n \in DOMAIN value : value[n] = RemoteRows[n]
          [] last.result.strategy = "local" ->
               \A n \in DOMAIN value :
                 value[n].similarity = Num(LocalScore(LoadIndex(value[n])))
          [] last.result.strategy = "keyword" ->
               \A n \in DOMAIN value :
                 value[n].similarity = Num(OverlapScore(LoadIndex(value[n])))
          [] OTHER -> value = <<>>

\* the remote search answered nothing usable, the local tier failed at
\* encode, and every returned document carries a keyword count
C28_Witness ==
  /\ last.op = "retrieve" /\ last.result.raised = ""
  /\ last.result.tried = <<"remote", "local", "keyword">>
  /\ embeddings.built
  /\ Len(last.result.value) >= 2
  /\ \A n \in DOMAIN last.result.value :
       last.result.value[n].similarity = Num(OverlapScore(LoadIndex(last.result.value[n])))

\* ---- POST /api/policy-match (routes/policy.py) ----
\* Texts the handler only copies are one piece each; names, states and
\* crops, which it lower-cases and searches, are sequences of words.
\* Land sizes are in tenths of a hectare.
Phrase(p) == Str(<<p>>)
Word(w) == Str(<<w>>)

\* s.lower()
LowerStr(s) == Str([i \in DOMAIN s.v |-> Lower(s.v[i])])

\* db.get_schemes without a client: the one demo scheme
DemoSchemes ==
  << [name |-> Word("PM-KISAN"),
      description |-> Phrase("Income support scheme providing Rs 6000 annually"),
      eligibility |-> List(<<Phrase("Small & marginal farmers"),
                             Phrase("Land holding up to 2 hectares")>>),
      required_docs |-> List(<<Phrase("Aadhaar Card"), Phrase("Land ownership papers"),
                               Phrase("Bank details")>>)] >>

AllFarmerTypes == List(<<Word("small"), Word("marginal"), Word("large")>>)

\* get_fallback_schemes()
FallbackSchemes ==
  << [name |-> Word("PM-KISAN"), code |-> Word("PM-KISAN"),
      description |-> Phrase("Income support scheme providing Rs 6000 annually to farmer families"),
      eligibility |-> List(<<Phrase("Small and marginal farmer families"),
                             Phrase("Land holding up to 2 hectares"),
                             Phrase("Indian citizenship required")>>),
      required_docs |-> List(<<Phrase("Aadhaar Card"), Phrase("Land ownership papers"),
                               Phrase("Bank account details"), Phrase("Mobile number")>>),
      benefits |-> Phrase("Rs 6000 per year in three installments of Rs 2000 each"),
      url |-> Phrase("https://pmkisan.gov.in/"),
      applicable_states |-> List(<<>>), applicable_crops |-> List(<<>>),
      max_land_size |-> Num(20),
      eligible_farmer_types |-> List(<<Word("small"), Word("marginal")>>)],
     [name |-> Str(<<"Pradhan", "Mantri", "Fasal", "Bima", "Yojana", "(PMFBY)">>),
      code |-> Word("PMFBY"),
      description |-> Phrase("Crop insurance scheme protecting farmers against crop loss"),
      eligibility |-> List(<<Phrase("All farmers (landowner/tenant)"),
                             Phrase("Notified crops in notified areas"),
                             Phrase("Compulsory for loanee farmers")>>),
      required_docs |-> List(<<Phrase("Application form"), Phrase("Aadhaar/Voter ID"),
                               Phrase("Bank account details"), Phrase("Land records"),
                               Phrase("Sowing certificate")>>),
      benefits |-> Phrase("Comprehensive risk cover against all non-preventable natural risks"),
      url |-> Phrase("https://pmfby.gov.in/"),
      applicable_states |-> List(<<>>),
      applicable_crops |-> List(<<Word("wheat"), Word("rice"), Word("cotton"),
                                  Word("sugarcane"), Word("oilseeds")>>),
      eligible_farmer_types |-> AllFarmerTypes],
     [name |-> Str(<<"Kisan", "Credit", "Card", "(KCC)">>), code |-> Word("KCC"),
      description |-> Phrase("Credit facility for farmers at subsidized interest rates"),
      eligibility |-> List(<<Phrase("Farmers with land ownership"),
                             Phrase("Tenant farmers with valid documents"),
                             Phrase("SHG members involved in agriculture")>>),
      required_docs |-> List(<<Phrase("KYC documents"), Phrase("Land documents"),
                               Phrase("Income certificate"), Phrase("Crop plan/budget")>>),
      benefits |-> Phrase("Credit up to Rs 3 lakh at 4% interest rate (with subsidy)"),
      url |-> Phrase("https://www.nabard.org/content1.aspx?id=581"),
      applicable_states |-> List(<<>>), applicable_crops |-> List(<<>>),
      eligible_farmer_types |-> AllFarmerTypes],
     [name |-> Word("PM-KUSUM"), code |-> Word("PM-KUSUM"),
      description |-> Phrase("Solar energy scheme for irrigation and grid feeding"),
      eligibility |-> List(<<Phrase("Individual farmers"), Phrase("Cooperatives/FPOs"),
                             Phrase("Water user associations")>>),
      required_docs |-> List(<<Phrase("Application form"), Phrase("Land documents"),
                               Phrase("Electricity connection proof"),
                               Phrase("Bank guarantee")>>),
      benefits |-> Phrase("30-60% subsidy on solar pumps and grid-connected solar plants"),
      url |-> Phrase("https://pmkusum.mnre.gov.in/"),
      applicable_states |-> List(<<>>), applicable_crops |-> List(<<>>),
      eligible_farmer_types |-> AllFarmerTypes],
     [name |-> Str(<<"Soil", "Health", "Card", "Scheme">>), code |-> Word("SHC"),
      description |-> Phrase("Free soil testing and nutrient management recommendations"),
      eligibility |-> List(<<Phrase("All farmers"),
                             Phrase("Land ownership or cultivation rights")>>),
      required_docs |-> List(<<Phrase("Land documents"), Phrase("Aadhaar card"),
                               Phrase("Application form")>>),
      benefits |-> Phrase("Free soil testing every 2 years with fertilizer recommendations"),
      url |-> Phrase("https://soilhealth.dac.gov.in/"),
      applicable_states |-> List(<<>>), applicable_crops |-> List(<<>>),
      eligible_farmer_types |-> AllFarmerTypes] >>

\* rows the schemes table can hold: a state scheme and a pan-India one
StateScheme ==
  [name |-> Str(<<"Punjab", "Crop", "Diversification", "Scheme">>), code |-> Word("PCDS"),
   description |-> Phrase("Support for moving from paddy to maize"),
   eligibility |-> List(<<Phrase("Farmers of Punjab")>>),
   required_docs |-> List(<<Phrase("Land records")>>),
   benefits |-> Phrase("Rs 7000 per acre"),
   applicable_states |-> List(<<Word("Punjab")>>),
   applicable_crops |-> List(<<Word("Maize")>>),
   max_land_size |-> Num(50)]

NationalScheme ==
  [name |-> Str(<<"Kisan", "Credit", "Card", "(KCC)">>), code |-> Word("KCC"),
   description |-> Phrase("Credit facility for farmers"),
   eligibility |-> List(<<Phrase("Farmers with land ownership")>>),
   required_docs |-> List(<<Phrase("KYC documents")>>),
   benefits |-> Phrase("Credit up to Rs 3 lakh"),
   url |-> Phrase("https://www.nabard.org/"),
   applicable_states |-> List(<<Word("All")>>),
   eligible_farmer_types |-> List(<<Word("small"), Word("marginal")>>)]

\* the outcomes of the select on the schemes table: it raises, or returns
\* its data
SchemeStoreOutcomes ==
  {[kind |-> "exception", data |-> <<>>]}
  \cup {[kind |-> "data", data |-> rows] :
          rows \in {<<>>, <<StateScheme>>, <<StateScheme, NationalScheme>>}}

\* db.get_schemes(state, crop); store is the select's outcome
get_schemes(client, store) ==
  IF ~client THEN DemoSchemes
  ELSE IF store.kind = "data" /\ store.data # <<>> THEN store.data
  ELSE <<>>

PanIndiaWords == {"all", "india", "pan-india"}

\* is_eligible(scheme, request)
is_eligible(scheme, request) ==
  LET applicable_states == Get(scheme, "applicable_states", List(<<>>))
      applicable_crops == Get(scheme, "applicable_crops", List(<<>>))
      max_land_size == Get(scheme, "max_land_size", None)
      eligible_farmer_types == Get(scheme, "eligible_farmer_types", List(<<>>))
      stateFails ==
        /\ Truthy(applicable_states)
        /\ request.state \notin Range(applicable_states.v)
        /\ ~\E st \in Range(applicable_states.v) :
              st.v # <<>> /\ Len(st.v) = 1 /\ Lower(st.v[1]) \in PanIndiaWords
      cropFails ==
        /\ Truthy(request.crop)
        /\ Truthy(applicable_crops)
        /\ LowerStr(request.crop) \notin {LowerStr(c) : c \in Range(applicable_crops.v)}
      landFails ==
        /\ request.land_size.type # "NoneType"
        /\ Truthy(max_land_size)
        /\ request.land_size.v > max_land_size.v
      typeFails ==
        /\ Truthy(request.farmer_type)
        /\ Truthy(eligible_farmer_types)
        /\ request.farmer_type \notin Range(eligible_farmer_types.v)
  IN  ~stateFails /\ ~cropFails /\ ~landFails /\ ~typeFails

\* SchemeInfo(name=scheme.get("name", ""), ...)
SchemeInfo(scheme) ==
  [name |-> Get(scheme, "name", Str(<<>>)),
   code |-> Get(scheme, "code", Str(<<>>)),
   description |-> Get(scheme, "description", Str(<<>>)),
   eligibility |-> Get(scheme, "eligibility", List(<<>>)),
   required_docs |-> Get(scheme, "required_docs", List(<<>>)),
   benefits |-> Get(scheme, "benefits", Str(<<>>)),
   application_url |-> Get(scheme, "url", None)]

RecNoSchemes ==
  Phrase("No specific schemes found for your profile. Consider visiting your local KVK for guidance.")
RecGeneral ==
  Phrase("Check eligibility for general farmer welfare schemes like PM-KISAN.")
RecPmKisan ==
  Phrase("Apply for PM-KISAN first as it provides direct income support with minimal documentation.")
RecInsurance ==
  Phrase("Consider crop insurance (PMFBY) to protect against weather risks and crop losses.")
RecCredit ==
  Phrase("Kisan Credit Card can provide easy access to agricultural credit at subsidized rates.")
RecSmall ==
  Phrase("As a small/marginal farmer, you may get priority in most government schemes.")
RecMultiple ==
  Phrase("You're eligible for multiple schemes. Start with income support schemes, then consider credit and insurance.")
RecCsc ==
  Phrase("Visit your nearest Common Service Center (CSC) for application assistance.")

\* for each keyword of generate_recommendations, the lower-case words of
\* the scheme names that contain it
SchemeWordsContaining ==
  [kw \in {"pm-kisan", "insurance", "pmfby", "credit", "kcc"} |->
     CASE kw = "pm-kisan" -> {"pm-kisan"}
       [] kw = "insurance" -> {}
       [] kw = "pmfby" -> {"(pmfby)"}
       [] kw = "credit" -> {"credit"}
       [] kw = "kcc" -> {"(kcc)"}]

\* any(kw in name for name in scheme_names), one of the keywords
AnyNameHas(kws, matched_schemes) ==
  \E i \in DOMAIN matched_schemes, kw \in kws :
    \E j \in DOMAIN matched_schemes[i].name.v :
      Lower(matched_schemes[i].name.v[j]) \in SchemeWordsContaining[kw]

\* the one-element list when the condition holds
When(cond, item) == IF cond THEN <<item>> ELSE <<>>

\* generate_recommendations(request, matched_schemes)
generate_recommendations(request, matched_schemes) ==
  IF matched_schemes = <<>> THEN <<RecNoSchemes, RecGeneral>>
  ELSE When(AnyNameHas({"pm-kisan"}, matched_schemes), RecPmKisan)
       \o When(AnyNameHas({"insurance", "pmfby"}, matched_schemes), RecInsurance)
       \o When(AnyNameHas({"credit", "kcc"}, matched_schemes), RecCredit)
       \o When(Truthy(request.land_size) /\ request.land_size.v <= 20, RecSmall)
       \o When(Len(matched_schemes) > 3, RecMultiple)
       \o <<RecCsc>>

\* `if not schemes: schemes = get_fallback_schemes()`
SchemesToEvaluate(schemes) == IF schemes = <<>> THEN FallbackSchemes ELSE schemes

\* the eligible schemes of the list, in its order, as SchemeInfo
RECURSIVE MatchedSchemes(_, _)
MatchedSchemes(schemes, request) ==
  IF schemes = <<>> THEN <<>>
  ELSE When(is_eligible(Head(schemes), request), SchemeInfo(Head(schemes)))
       \o MatchedSchemes(Tail(schemes), request)

\* the body of match_policies for the schemes db.get_schemes returned
match_policies(request, fromDb) ==
  LET schemes == SchemesToEvaluate(fromDb)
      matched_schemes == MatchedSchemes(schemes, request)
  IN  [matched_schemes |-> matched_schemes,
       total_matches |-> Len(matched_schemes),
       recommendations |-> generate_recommendations(request, matched_schemes),
       meta |-> [state |-> request.state, crop |-> request.crop,
                 search_criteria |-> [land_size |-> request.land_size,
                                      farmer_type |-> request.farmer_type]]]

\* the profiles posted to the endpoint
PolicyRequests ==
  [state : {Word("Punjab"), Word("Kerala")},
   crop : {None, Word("Wheat"), Word("maize")},
   land_size : {None, Num(0), Num(20), Num(25), Num(60)},
   farmer_type : {None, Word("small"), Word("large")}]

\* one POST /api/policy-match
MatchPolicies ==
  /\ last = NoCall
  /\ \E request \in PolicyRequests,
        store \in (IF connected THEN SchemeStoreOutcomes ELSE {NoSelect}) :
       LET fromDb == get_schemes(connected, store)
       IN  last' = [op |-> "policy", request |-> request, store |-> store,
                    schemes |-> SchemesToEvaluate(fromDb),
                    status |-> 200,
                    body |-> match_policies(request, fromDb)]
  /\ UNCHANGED <<HF_API_KEY, connected, model, documents, embeddings, pc,
                 market_cache, now>>

NextPolicy ==
  \/ MatchPolicies
  \/ Return

PolicySpec == Init /\ [][NextPolicy]_vars

\* the last call was POST /api/policy-match
PolicyMatched == last.op = "policy"

\* C29: without a Supabase client policy matching evaluates eligibility
\* over the set get_fallback_schemes returns, and so it does whenever the
\* database gave no schemes.
C29_FallbackSchemesWithoutDatabase ==
  PolicyMatched =>
    /\ ~connected => last.schemes = FallbackSchemes
    /\ (last.store.kind # "data" \/ last.store.data = <<>>) =>
         last.schemes = FallbackSchemes

\* ---- GET /api/market (routes/market.py) ----
\* A query parameter is a sequence of pieces, "_" being a piece of its own,
\* so that joining two parameters is concatenation. Prices are in
\* hundredths of a rupee, times in seconds.
CACHE_DURATION == 1800

\* the clock advances by TickSeconds up to MaxNow
TickSeconds == 900
MaxTicks == 3
MaxNow == MaxTicks * TickSeconds

\* f"{commodity}_{mandi}"
CacheKey(commodity, mandi) == commodity.v \o <<"_">> \o mandi.v

\* base_prices of generate_demo_market_data, in rupees per quintal
base_prices ==
  [c \in {"wheat", "rice", "tomato", "onion", "potato", "cotton", "sugarcane",
          "maize", "soybean", "groundnut"} |->
     CASE c = "wheat" -> 2300 [] c = "rice" -> 3200 [] c = "tomato" -> 1800
       [] c = "onion" -> 1500 [] c = "potato" -> 1200 [] c = "cotton" -> 5500
       [] c = "sugarcane" -> 350 [] c = "maize" -> 1800 [] c = "soybean" -> 4200
       [] c = "groundnut" -> 5800]

\* base_prices.get(commodity.lower(), 2000)
BasePrice(commodity) ==
  LET commodity_lower == LowerStr(commodity).v
  IN  IF Len(commodity_lower) = 1 /\ commodity_lower[1] \in DOMAIN base_prices
      THEN base_prices[commodity_lower[1]]
      ELSE 2000

\* what the random.uniform draws can make of the base price: the seven
\* past days and today, in percent of the base price; each day is within
\* 5% of the day before and not under 80, today within 3% of yesterday
PriceDraws ==
  { <<100, 100, 100, 100, 100, 100, 100, 100>>,
    <<105, 110, 115, 120, 125, 131, 137, 141>>,
    <<95, 91, 87, 83, 80, 80, 80, 78>> }

\* the day of a timestamp
Day(t) == t \div 86400

\* fetch_agmarknet_data(commodity, mandi): every path returns None
fetch_agmarknet_data(commodity, mandi) == None

\* generate_demo_market_data(commodity, mandi) for one draw, at time t
generate_demo_market_data(commodity, mandi, draw, t) ==
  LET base_price == BasePrice(commodity)
  IN  [latest_price |-> base_price * draw[8],
       history |-> [i \in 1..8 |-> [date |-> Day(t) - (8 - i),
                                    price |-> base_price * draw[i]]],
       meta |-> [source |-> Phrase("Demo data"), api_used |-> FALSE,
                 note |-> Phrase("This is simulated market data for demonstration"),
                 base_price |-> base_price]]

RECURSIVE SumPrices(_)
\* sum(p.price for p in entries)
SumPrices(entries) ==
  IF entries = <<>> THEN 0 ELSE Head(entries).price + SumPrices(Tail(entries))

\* market_data["history"][-7:]
LastSeven(history) == SubSeq(history, Len(history) - 6, Len(history))

\* generate_trading_signal(latest_price, seven_day_ma) with seven_day_ma
\* the quotient total / count, compared without dividing
generate_trading_signal(latest_price, total, count) ==
  LET diffTimesTotal == 100 * (count * latest_price - total)
  IN  IF diffTimesTotal > 5 * total THEN "SELL"
      ELSE IF diffTimesTotal < -5 * total THEN "BUY"
      ELSE "HOLD"

\* round(total / count, 2), in hundredths
RoundedMean(total, count) == (2 * total + count) \div (2 * count)

\* the result dict get_market_data builds from the market data
MarketResult(commodity, mandi, market_data) ==
  LET enough == Len(market_data.history) >= 7
      total == IF enough THEN SumPrices(LastSeven(market_data.history))
               ELSE market_data.latest_price
      count == IF enough THEN 7 ELSE 1
  IN  [commodity |-> commodity,
       mandi |-> mandi,
       latest_price |-> market_data.latest_price,
       seven_day_ma |-> RoundedMean(total, count),
       signal |-> generate_trading_signal(market_data.latest_price, total, count),
       history |-> market_data.history,
       meta |-> market_data.meta]

\* the entries of the cache under a key
CachedUnder(cache, cache_key) == {e \in cache : e.key = cache_key}

\* market_cache[cache_key] = (result, timestamp)
CachePut(cache, cache_key, result, timestamp) ==
  (cache \ CachedUnder(cache, cache_key))
  \cup {[key |-> cache_key, data |-> result, timestamp |-> timestamp]}

\* the requests sent to the endpoint
Commodities == {Str(<<"rice">>), Str(<<"rice", "_", "basmati">>)}
Mandis == {Str(<<"Delhi">>), Str(<<"basmati", "_", "Delhi">>)}
MarketRequests ==
  {r \in [commodity : Commodities, mandi : Mandis] :
     Len(r.commodity.v) = 1 \/ Len(r.mandi.v) = 1}

\* one GET /api/market: the cached result while it is fresh, else new
\* data, cached under the key
GetMarketData ==
  /\ last = NoCall
  /\ \E request \in MarketRequests, draw \in PriceDraws :
       LET commodity == request.commodity
           mandi == request.mandi
           cache_key == CacheKey(commodity, mandi)
           hits == {e \in CachedUnder(market_cache, cache_key) :
                      now - e.timestamp < CACHE_DURATION}
           fetched == fetch_agmarknet_data(commodity, mandi)
           market_data == IF Truthy(fetched) THEN fetched
                          ELSE generate_demo_market_data(commodity, mandi, draw, now)
           result == MarketResult(commodity, mandi, market_data)
       IN  IF hits # {}
           THEN /\ \E e \in hits :
                     last' = [op |-> "market", commodity |-> commodity, mandi |-> mandi,
                              cached |-> TRUE, age |-> now - e.timestamp,
                              status |-> 200, body |-> e.data]
                /\ UNCHANGED market_cache
           ELSE /\ last' = [op |-> "market", commodity |-> commodity, mandi |-> mandi,
                            cached |-> FALSE, age |-> 0,
                            status |-> 200, body |-> result]
                /\ market_cache' = CachePut(market_cache, cache_key, result, now)
  /\ UNCHANGED <<HF_API_KEY, connected, model, documents, embeddings, pc, now>>

\* time passes between two requests
Tick ==
  /\ last = NoCall
  /\ now < MaxNow
  /\ now' = now + TickSeconds
  /\ UNCHANGED <<HF_API_KEY, connected, model, documents, embeddings, pc, last,
                 market_cache>>

NextMarket ==
  \/ GetMarketData
  \/ Tick
  \/ Return

MarketSpec == Init /\ [][NextMarket]_vars

\* the last call was GET /api/market and it succeeded
MarketAnswered == last.op = "market" /\ last.status = 200

\* C30: every successful /api/market response carries the commodity and
\* the mandi of the request it answers, also when it comes from the cache,
\* and a cached entry is served only while younger than 1800 seconds.
C30_ResponseEchoesRequest ==
  MarketAnswered =>
    /\ last.body.commodity = last.commodity
    /\ last.body.mandi = last.mandi
    /\ last.cached => last.age < CACHE_DURATION

=============================================================================
